---- MODULE Spec2Model ----
(***************************************************************************)
(* A model of the zotero-mcp library client (src/src/zotero-client.ts) and *)
(* of its attachment cache (CacheManager).  One ZoteroClient instance is   *)
(* shared by the operations of Procs, which interleave at the await points *)
(* of the code: the rate limiter's sleeps and the network calls.  Time is  *)
(* in milliseconds.                                                        *)
(***************************************************************************)
EXTENDS Integers, Sequences, FiniteSets, TLC

VARIABLES
    clock,            \* Date.now()
    libraryVersion,   \* ZoteroClient.libraryVersion (None = null)
    lastRequestTime,  \* ZoteroClient.lastRequestTime
    backoffUntil,     \* ZoteroClient.backoffUntil
    proc,             \* the operations in progress, one per caller
    started,          \* number of operations started so far
    serverVersion,    \* the remote library's version counter
    items,            \* the remote library's items, by key
    cooled,           \* number of 429 / Backoff responses the service has sent
    failing,          \* whether the service may fail requests on items (403, 500)
    nSent,            \* number of HTTP requests dispatched so far
    firstDispatch,    \* time of the first dispatch (None before it)
    maxSeen           \* largest Last-Modified-Version header read so far

VARIABLES
    fs,               \* the cache directories on disk, by library and item key
    cproc,            \* the CacheManager calls in progress, one per caller
    cstarted,         \* number of CacheManager calls started so far
    saved             \* per directory, the sidecar writes since it was last removed

VARIABLES
    att,              \* the remote library's attachment items, by key
    dl,               \* the downloadAttachment call in progress
    nDownloads,       \* number of binary downloads performed so far
    dlog              \* the last two downloadAttachment calls that ended

VARIABLES
    fulltext          \* the remote library's indexed text of each item (its length)

VARIABLES
    tc,               \* the TranslationClient: its baseUrl
    tr,               \* the TranslationClient call in progress, or the last one
    trCalls           \* number of TranslationClient calls started so far

clientVars == <<clock, libraryVersion, lastRequestTime, backoffUntil, proc,
                started, serverVersion, items, cooled, failing, nSent, firstDispatch,
                maxSeen>>

cacheVars == <<fs, cproc, cstarted, saved>>

dlVars == <<att, dl, nDownloads, dlog>>

\* The variables that neither the client's requests nor the cache touch.
trVars == <<tc, tr, trCalls>>

restVars == <<dlVars, fulltext, trVars>>

vars == <<clientVars, cacheVars, restVars>>

-----------------------------------------------------------------------------
(* Bounds of the model *)

MaxOps == 3
MaxCool == 1
MaxCacheOps == 3
MaxDlCalls == 2
MaxTrCalls == 3
TimeStep == 500
MaxTime == 5000
BackoffSeconds == 2
RetryAfterSeconds == 1
LongRetryAfter == 404

(* Program constants *)

DEFAULT_REQUEST_INTERVAL == 1000
DefaultWaitSeconds == 5

requestInterval == DEFAULT_REQUEST_INTERVAL

None == -1

\* The concurrent callers of one client.
Procs == {1, 2}
Keys == {"K1"}
TagNames == {"a", "b", "c"}

Max(a, b) == IF a >= b THEN a ELSE b

-----------------------------------------------------------------------------
(* Item data, partial updates, requests, responses *)

NoData == [title |-> 0, tags |-> <<>>, collections |-> <<>>, deleted |-> 0]

NoItem == [key |-> "none", version |-> None, data |-> NoData]

\* A Partial<ZoteroItemData>: the fields in has are present, with val's values.
NoBody == [has |-> {}, val |-> NoData]

Partial(field, value) ==
    [has |-> {field}, val |-> [NoData EXCEPT ![field] = value]]

\* params: the query parameters that are sent, by name; batch: the array a
\* POST submits.
NoReq == [method |-> "none", path |-> "none", key |-> "none",
          ifUnmod |-> None, body |-> NoBody, params |-> <<>>, batch |-> <<>>]

\* A piece of a text: the characters from position lo up to hi (lo included,
\* hi not), positions counted from 0.
Chars(lo, hi) == [lo |-> lo, hi |-> IF hi > lo THEN hi ELSE lo]

NoText == Chars(0, 0)

\* text: the body of a failure, as a sequence of characters and words;
\* content: the content field of a fulltext answer.
\* message.includes(part), for texts given as sequences of pieces
Holds(message, part) ==
    \E i \in 0..(Len(message) - Len(part)) :
       SubSeq(message, i + 1, i + Len(part)) = part

\* A ZoteroWriteResponse: three maps keyed by submission index.
NoWrite == [success |-> <<>>, unchanged |-> <<>>, failed |-> <<>>]

NoResp == [status |-> 0, lmv |-> None, backoff |-> 0, retryAfter |-> 0,
           item |-> NoItem, text |-> <<>>, content |-> NoText,
           data |-> NoWrite, contentType |-> <<>>]

NoResult == [kind |-> "none", status |-> 0, wait |-> 0]

IdleProc == [op |-> "idle", pc |-> "idle", stage |-> "none", key |-> "none",
             arg |-> NoBody, tagsArg |-> <<>>, now |-> 0, wakeAt |-> 0,
             req |-> NoReq, resp |-> NoResp, item |-> NoItem,
             result |-> NoResult, input |-> <<>>, output |-> <<>>,
             sent |-> <<>>, owed |-> 0, slept |-> 0]

-----------------------------------------------------------------------------
(* The remote library service.  A request is handled when it is dispatched; *)
(* its response is processed by the client at some later step, so the       *)
(* responses of concurrent requests arrive in any order.                    *)

ApplyPartial(data, body) ==
    [f \in DOMAIN data |-> IF f \in body.has THEN body.val[f] ELSE data[f]]

Outcome(resp, sv, its, cool) ==
    [resp |-> resp, sv |-> sv, its |-> its, cool |-> cool]

\* GET <library>/items/<key>: the item, with the item's version in the header;
\* 404 when the library holds no such item.
ServeGetItem(rq) ==
    IF items[rq.key] = NoItem
    THEN [NoResp EXCEPT !.status = 404]
    ELSE [NoResp EXCEPT !.status = 200, !.lmv = items[rq.key].version,
                        !.item = items[rq.key]]

\* PATCH <library>/items/<key>: 428 without a precondition, 412 when the item
\* was modified after the stated version, else the partial update is applied
\* and the item gets the library's next version.
\* DELETE <library>/items/<key> erases the item for good.
ServeWriteItem(rq) ==
    IF items[rq.key] = NoItem
    THEN Outcome([NoResp EXCEPT !.status = 404], serverVersion, items, 0)
    ELSE IF rq.ifUnmod = None
    THEN Outcome([NoResp EXCEPT !.status = 428], serverVersion, items, 0)
    ELSE IF items[rq.key].version > rq.ifUnmod
    THEN Outcome([NoResp EXCEPT !.status = 412, !.lmv = items[rq.key].version],
                 serverVersion, items, 0)
    ELSE Outcome([NoResp EXCEPT !.status = 204, !.lmv = serverVersion + 1],
                 serverVersion + 1,
                 [items EXCEPT ![rq.key] =
                     IF rq.method = "DELETE" THEN NoItem
                     ELSE [key |-> rq.key, version |-> serverVersion + 1,
                           data |-> ApplyPartial(items[rq.key].data, rq.body)]],
                 0)

\* GET <library>/items/<key>/fulltext: the indexed text of the item; 404 when
\* the service has no indexed text for it.
ServeFulltext(rq) ==
    IF fulltext[rq.key] = None
    THEN [NoResp EXCEPT !.status = 404, !.text = <<"Not found">>]
    ELSE [NoResp EXCEPT !.status = 200, !.lmv = serverVersion,
                        !.content = Chars(0, fulltext[rq.key])]

ServeNormally(rq) ==
    IF rq.path = "fulltext"
    THEN Outcome(ServeFulltext(rq), serverVersion, items, 0)
    ELSE IF rq.method = "GET"
    THEN Outcome(ServeGetItem(rq), serverVersion, items, 0)
    ELSE ServeWriteItem(rq)

\* Bodies of failure answers: plain words, or a text that holds digits.
ErrorBodies == { <<"Forbidden">>, <<"no item ", "4", "0", "4", "7">> }

\* The failures of the fulltext endpoint other than 'no indexed text': access
\* denied, a server error, and a rate limit with a long or no Retry-After.
FulltextFailures ==
    { [NoResp EXCEPT !.status = st, !.text = b] :
        st \in {403, 500}, b \in ErrorBodies }
    \cup { [NoResp EXCEPT !.status = 429, !.retryAfter = ra] :
             ra \in {0, LongRetryAfter} }

\* The failures of the other endpoints: access denied and a server error.
ItemFailures ==
    { [NoResp EXCEPT !.status = 403, !.text = <<"Forbidden">>],
      [NoResp EXCEPT !.status = 500,
                     !.text = <<"no item ", "4", "0", "4", "7">>] }

\* The failures the service may answer with instead of handling rq.
Failures(rq) ==
    IF rq.path = "fulltext"
    THEN { Outcome(r, serverVersion, items, 0) : r \in FulltextFailures }
    ELSE IF failing /\ cooled < MaxCool
    THEN { Outcome(r, serverVersion, items, 1) : r \in ItemFailures }
    ELSE {}

\* The trash listing: the items whose deleted marker is set.
InTrash(k) == items[k] # NoItem /\ items[k].data.deleted = 1

\* The rate-limited answers: status 429 with or without Retry-After / Backoff.
RateLimitedResponses ==
    { [NoResp EXCEPT !.status = 429, !.retryAfter = ra, !.backoff = b] :
        ra \in {0, RetryAfterSeconds}, b \in {0, BackoffSeconds} }

\* GET <library>/items?limit=1: a page of items with the library's version in
\* the header.
ServeListItems(rq) ==
    [NoResp EXCEPT !.status = 200, !.lmv = serverVersion]

CreatedKey == "NEWKEY01"

FailureMessage == "'itemType' property not provided"

\* What the service can say about the one object of a batch: created, not
\* changed, rejected, or nothing at all.
WriteReports ==
    { [NoWrite EXCEPT !.success = ("0" :> CreatedKey)],
      [NoWrite EXCEPT !.unchanged = ("0" :> CreatedKey)],
      [NoWrite EXCEPT !.failed = ("0" :> [code |-> 400,
                                          message |-> FailureMessage])],
      NoWrite }

\* POST <library>/items: 412 when the library was modified after the stated
\* version; else the batch is processed and reported per submission index,
\* and a created object gets the library's next version.
ServeCreate(rq) ==
    IF rq.ifUnmod # None /\ serverVersion > rq.ifUnmod
    THEN { Outcome([NoResp EXCEPT !.status = 412, !.lmv = serverVersion],
                   serverVersion, items, 0) }
    ELSE { IF w.success # <<>>
           THEN Outcome([NoResp EXCEPT !.status = 200, !.data = w,
                                       !.lmv = serverVersion + 1],
                        serverVersion + 1, items, 0)
           ELSE Outcome([NoResp EXCEPT !.status = 200, !.data = w,
                                       !.lmv = serverVersion],
                        serverVersion, items, 0) : w \in WriteReports }

\* The endpoints that list items: all items or the top-level ones, of the
\* library or of the collection of rq.key.
ListPaths == {"items", "items/top", "collections/items", "collections/items/top"}

\* The Content-Type headers an export can come with.
ContentTypes ==
    { <<"application/x-bibtex">>, <<"text/plain", "; charset=utf-8">>,
      <<"application/", "vnd.citationstyles.csl+json">>,
      <<"application/json">>, <<"application/json", "; charset=utf-8">>, <<>> }

\* GET <library>/items?itemKey=...&format=...: the items in that format, as
\* the text of the body.
ServeExport(rq) ==
    { [NoResp EXCEPT !.status = 200, !.lmv = serverVersion,
                     !.text = <<rq.params["format"], ":", rq.params["itemKey"]>>,
                     !.contentType = ct] : ct \in ContentTypes }

\* The answers to a request on one of them.
ServeItems(rq, hostile) ==
    (IF rq.method = "POST" THEN ServeCreate(rq)
     ELSE IF "format" \in DOMAIN rq.params
     THEN { Outcome(r, serverVersion, items, 0) : r \in ServeExport(rq) }
     ELSE { Outcome(ServeListItems(rq), serverVersion, items, 0) })
    \cup (IF hostile /\ cooled < MaxCool
          THEN { Outcome(r, serverVersion, items, 1) : r \in RateLimitedResponses }
          ELSE {})
    \cup (IF hostile THEN Failures(rq) ELSE {})

\* Everything the service may answer to rq.  An overloaded service (hostile)
\* may answer 429 without handling the request, or handle it and ask for a
\* cooldown with a Backoff header.
ServerHandle(rq, hostile) ==
    IF rq.path \in ListPaths THEN ServeItems(rq, hostile) ELSE
    LET n == ServeNormally(rq) IN
    {n} \cup
    (IF hostile /\ cooled < MaxCool
     THEN { Outcome(r, serverVersion, items, 1) : r \in RateLimitedResponses }
          \cup { Outcome([n.resp EXCEPT !.backoff = BackoffSeconds],
                         n.sv, n.its, 1) }
     ELSE {})
    \cup (IF hostile THEN Failures(rq) ELSE {})

-----------------------------------------------------------------------------
(* ZoteroClient.throttle and the dispatch that follows it *)

\* throttle, line 39-40: the time to sleep for the cooldown (<= 0: none).
BackoffWait(now, bo) == bo - now

\* The interval wait with the interval taken as a number of seconds.
IntervalWaitSeconds(now, last) == (requestInterval \div 1000) - (now - last)

\* throttle, line 45-47: the time to sleep for the spacing (<= 0: none).
IntervalWait(now, last) == requestInterval - (now - last)

Suspend(p, pr) ==
    /\ proc' = [proc EXCEPT ![p] = pr]
    /\ UNCHANGED <<lastRequestTime, serverVersion, items, cooled, failing, nSent,
                   firstDispatch>>

\* No time recorded for the attempt.
StampNever(now) == 0

\* throttle, line 50: this.lastRequestTime = Date.now()
Stamp(now) == now

\* throttle line 50 and the fetch of the caller: stamp, then dispatch.
Fetch(p, pr, bo, hostile) ==
    /\ lastRequestTime' = Stamp(clock)
    /\ nSent' = nSent + 1
    /\ firstDispatch' = IF nSent = 0 THEN clock ELSE firstDispatch
    /\ \E out \in ServerHandle(pr.req, hostile) :
          /\ serverVersion' = out.sv
          /\ items' = out.its
          /\ cooled' = cooled + out.cool
          /\ UNCHANGED failing
          /\ proc' = [proc EXCEPT ![p] =
                        [pr EXCEPT !.pc = "inflight", !.resp = out.resp,
                                   !.now = 0, !.wakeAt = 0,
                                   !.owed = 0, !.slept = 0,
                                   !.sent = Append(pr.sent, pr.req)]]

\* throttle written as a loop: the caller goes back to waiting.
IntervalCheckAgain(p, pr, bo, hostile) ==
    Suspend(p, [pr EXCEPT !.pc = "sleepBackoff", !.wakeAt = clock])

\* throttle lines 44-48, with the now that was read on entry.
IntervalCheck(p, pr, bo, hostile) ==
    IF IntervalWait(pr.now, lastRequestTime) > 0
    THEN Suspend(p, [pr EXCEPT !.pc = "sleepInterval",
                       !.wakeAt = clock + IntervalWait(pr.now, lastRequestTime),
                       !.slept = pr.slept + IntervalWait(pr.now, lastRequestTime)])
    ELSE Fetch(p, pr, bo, hostile)

\* The larger of the time left of the cooldown and the time left of the
\* spacing, or zero: what a caller entering throttle has to wait for.
Owed(now, bo, last) == Max(0, Max(BackoffWait(now, bo), IntervalWait(now, last)))

\* throttle from its entry to its first await (or to its end). bo is the value
\* of backoffUntil when throttle is entered. The call keeps what it had to
\* wait for on entry (owed) and the time it has asked to sleep (slept) until
\* its request is dispatched.
Throttle(p, pr, bo, hostile) ==
    LET entered == [pr EXCEPT !.now = clock, !.slept = 0,
                              !.owed = Owed(clock, bo, lastRequestTime)]
    IN  IF BackoffWait(clock, bo) > 0
        THEN Suspend(p, [entered EXCEPT !.pc = "sleepBackoff",
                           !.wakeAt = clock + BackoffWait(clock, bo),
                           !.slept = BackoffWait(clock, bo)])
        ELSE IntervalCheck(p, entered, bo, hostile)

\* sleep(waitTime) of line 41 is over.
WakeBackoff(p, hostile) ==
    /\ proc[p].pc = "sleepBackoff"
    /\ clock >= proc[p].wakeAt
    /\ IntervalCheck(p, proc[p], backoffUntil, hostile)
    /\ UNCHANGED <<clock, libraryVersion, backoffUntil, started, maxSeen>>
    /\ UNCHANGED <<cacheVars, restVars>>

\* sleep(requestInterval - elapsed) of line 47 is over.
WakeInterval(p, hostile) ==
    /\ proc[p].pc = "sleepInterval"
    /\ clock >= proc[p].wakeAt
    /\ Fetch(p, proc[p], backoffUntil, hostile)
    /\ UNCHANGED <<clock, libraryVersion, backoffUntil, started, maxSeen>>
    /\ UNCHANGED <<cacheVars, restVars>>

TickBy(step) ==
    /\ clock + step <= MaxTime
    /\ clock' = clock + step
    /\ UNCHANGED <<libraryVersion, lastRequestTime, backoffUntil, proc, started,
                   serverVersion, items, cooled, failing, nSent, firstDispatch,
                   maxSeen>>
    /\ UNCHANGED <<cacheVars, restVars>>

Sleeping(p) == proc[p].pc \in {"sleepBackoff", "sleepInterval"}

\* Time passes until the first of the pending timers of sleep (line 57) is
\* due.
TickToWake ==
    /\ \E p \in Procs : Sleeping(p) /\ proc[p].wakeAt > clock
    /\ clock' = CHOOSE t \in { proc[p].wakeAt : p \in { q \in Procs : Sleeping(q) } } :
                    /\ t > clock
                    /\ \A q \in Procs :
                          (Sleeping(q) /\ proc[q].wakeAt > clock) =>
                             t <= proc[q].wakeAt
    /\ UNCHANGED <<libraryVersion, lastRequestTime, backoffUntil, proc, started,
                   serverVersion, items, cooled, failing, nSent, firstDispatch,
                   maxSeen>>
    /\ UNCHANGED <<cacheVars, restVars>>

-----------------------------------------------------------------------------
(* ZoteroClient.request: what it does with a response (lines 138-162) *)

Ok(status) == status >= 200 /\ status <= 299

OkResult == [kind |-> "ok", status |-> 0, wait |-> 0]

ApiError(status) == [kind |-> "apiError", status |-> status, wait |-> 0]

RateLimited(wait) == [kind |-> "rateLimited", status |-> 429, wait |-> wait]

\* line 153: retryAfter || backoff || 5
RateLimitWait(r) ==
    IF r.retryAfter # 0 THEN r.retryAfter
    ELSE IF r.backoff # 0 THEN r.backoff
    ELSE DefaultWaitSeconds

\* lines 142-144
VersionAfter(lv, r) == IF r.lmv # None THEN r.lmv ELSE lv

\* lines 147-149 and 152-154
BackoffAfter(bo, r, now) ==
    IF r.status = 429 THEN now + RateLimitWait(r) * 1000
    ELSE IF r.backoff # 0 THEN now + r.backoff * 1000
    ELSE bo

\* Every response taken as a success.
RequestResultUnchecked(r) == OkResult

\* lines 152-162
RequestResult(r) ==
    IF r.status = 429 THEN RateLimited(RateLimitWait(r))
    ELSE IF ~Ok(r.status) THEN ApiError(r.status)
    ELSE OkResult

(* ZoteroClient.updateItem: what it does with the response of its own fetch *)
(* (lines 349-358)                                                          *)

DirectVersionAfter(lv, r) ==
    IF Ok(r.status) /\ r.lmv # None THEN r.lmv ELSE lv

DirectBackoffAfter(bo, r, now) == bo

\* The response of the write taken as a success whatever its status.
DirectResultUnchecked(r) == OkResult

\* lines 349-352
DirectResult(r) == IF ~Ok(r.status) THEN ApiError(r.status) ELSE OkResult

-----------------------------------------------------------------------------
(* The operations *)

\* getItem, lines 208-212
GetItemReq(k) ==
    [NoReq EXCEPT !.method = "GET", !.path = "item", !.key = k]

\* The write preconditioned on the tracked library version.
PatchPreconditionLibrary(item) == libraryVersion

\* updateItem, line 339: the precondition sent with the write
PatchPrecondition(item) == item.version

\* The write sent as an HTTP DELETE.
UpdateMethodDelete == "DELETE"

\* updateItem, line 344
UpdateMethod == "PATCH"

\* updateItem, lines 333-347
PatchReq(k, item, updates) ==
    [NoReq EXCEPT !.method = UpdateMethod, !.path = "item", !.key = k,
                  !.ifUnmod = PatchPrecondition(item), !.body = updates]

\* deleteItem, line 367
DeleteUpdates == Partial("deleted", 1)

TagNamesOf(tagList) == { tagList[i].tag : i \in DOMAIN tagList }

NewTag(name) == [tag |-> name, type |-> None]

\* addTagsToItem, lines 465-470
MergeTags(existingTags, tags) ==
    LET existingTagNames == TagNamesOf(existingTags)
        newTags == SelectSeq(tags, LAMBDA t : t \notin existingTagNames)
    IN  existingTags \o [i \in DOMAIN newTags |-> NewTag(newTags[i])]

\* The calls a caller can make: the operation and its arguments.
Call(op, k, updates, tags) ==
    [op |-> op, key |-> k, arg |-> updates, tags |-> tags]

FirstStage(op) ==
    IF op = "getItem" THEN "get"
    ELSE IF op = "addTagsToItem" THEN "merge"
    ELSE "read"

Idle(p) == proc[p].pc \in {"idle", "done", "failed"}

\* A caller starts an operation: each of them begins with getItem, which runs
\* up to the first await of throttle.
Start(p, c, hostile) ==
    /\ Idle(p)
    /\ started < MaxOps
    /\ started' = started + 1
    /\ Throttle(p, [IdleProc EXCEPT !.op = c.op, !.key = c.key,
                       !.arg = IF c.op = "deleteItem" THEN DeleteUpdates
                               ELSE c.arg,
                       !.tagsArg = c.tags, !.stage = FirstStage(c.op),
                       !.req = GetItemReq(c.key)],
                backoffUntil, hostile)
    /\ UNCHANGED <<clock, libraryVersion, backoffUntil, maxSeen>>
    /\ UNCHANGED <<cacheVars, restVars>>

-----------------------------------------------------------------------------
(* ZoteroClient.addItemToCollection, lines 479-497 *)

\* line 488: existingCollections.includes(collectionKey)
IncludesKey(list, k) == \E i \in DOMAIN list : list[i] = k

\* The collection alone, without the memberships the item has.
MergeCollectionsAlone(existingCollections, collectionKey) == <<collectionKey>>

\* line 493: [...existingCollections, collectionKey]
MergeCollections(existingCollections, collectionKey) ==
    Append(existingCollections, collectionKey)

\* addItemToCollection(k, collectionKey) is called: its getItem runs up to the
\* first await of throttle.  The input keeps the item that read returns.
StartAddToCollection(p, k, collectionKey, hostile) ==
    /\ Idle(p)
    /\ started < MaxOps
    /\ started' = started + 1
    /\ Throttle(p, [IdleProc EXCEPT !.op = "addItemToCollection", !.key = k,
                       !.stage = "member",
                       !.input = [collectionKey |-> collectionKey,
                                  read |-> NoItem],
                       !.req = GetItemReq(k)],
                backoffUntil, hostile)
    /\ UNCHANGED <<clock, libraryVersion, backoffUntil, maxSeen>>
    /\ UNCHANGED <<cacheVars, restVars>>

-----------------------------------------------------------------------------
(* ZoteroClient.getItemFulltext, lines 400-454 *)

Min(a, b) == IF a <= b THEN a ELSE b

\* String.prototype.slice(start, end) on a text of the given length: an index
\* below 0 counts from the end, an index past the end is the end.
SliceIndex(length, i) == IF i < 0 THEN Max(length + i, 0) ELSE Min(i, length)

Slice(content, start, end) ==
    LET length == content.hi - content.lo
    IN  Chars(content.lo + SliceIndex(length, start),
              content.lo + SliceIndex(length, end))

TextLength(content) == content.hi - content.lo

\* The limit with no upper end.
ActualLimitUncapped(limit) == Max(limit, 1000)

\* line 428
ActualLimit(limit) == Min(Max(limit, 1000), 50000)

\* The offset as the caller gave it.
ActualOffsetAsGiven(offset, totalChars) == offset

\* line 431
ActualOffset(offset, totalChars) == Min(Max(offset, 0), totalChars)

NullPage == [isNull |-> TRUE, content |-> NoText, offset |-> 0, length |-> 0,
             totalChars |-> 0, hasMore |-> FALSE, nextOffset |-> None]

\* The chunk ends one character too far.
NextOffsetPastEnd(actualOffset, length) == actualOffset + length + 1

\* line 443: the offset of the chunk after this one
NextOffset(actualOffset, length) == actualOffset + length

\* lines 424-446: the page for the requested offset and limit
FulltextPage(fullContent, offset, limit) ==
    LET totalChars == TextLength(fullContent)
        actualLimit == ActualLimit(limit)
        actualOffset == ActualOffset(offset, totalChars)
        slicedContent == Slice(fullContent, actualOffset, actualOffset + actualLimit)
        hasMore == actualOffset + TextLength(slicedContent) < totalChars
    IN  [isNull |-> FALSE,
         content |-> slicedContent,
         offset |-> actualOffset,
         length |-> TextLength(slicedContent),
         totalChars |-> totalChars,
         hasMore |-> hasMore,
         nextOffset |-> IF hasMore
                        THEN NextOffset(actualOffset, TextLength(slicedContent))
                        ELSE None]

DigitChars == <<"0", "1", "2", "3", "4", "5", "6", "7", "8", "9">>

\* String(n) for n >= 0, as a sequence of characters
RECURSIVE Digits(_)
Digits(n) ==
    IF n < 10 THEN <<DigitChars[n + 1]>>
    ELSE Digits(n \div 10) \o <<DigitChars[(n % 10) + 1]>>

\* The message without the body of the response.
ErrorMessageNoBody(res, r) ==
    IF res.kind = "rateLimited"
    THEN <<"Rate limited. Please wait ">> \o Digits(res.wait) \o <<" seconds.">>
    ELSE <<"Zotero API error (">> \o Digits(res.status) \o <<"): ">>

\* The message of the error request throws (lines 155 and 161) and of the
\* error updateItem throws (line 351)
ErrorMessage(res, r) ==
    IF res.kind = "rateLimited"
    THEN <<"Rate limited. Please wait ">> \o Digits(res.wait) \o <<" seconds.">>
    ELSE <<"Zotero API error (">> \o Digits(res.status) \o <<"): ">> \o r.text

\* message.includes('404')
Includes404(message) ==
    \E i \in 1..(Len(message) - 2) :
       /\ message[i] = "4"
       /\ message[i + 1] = "0"
       /\ message[i + 2] = "4"

FulltextReq(k) ==
    [NoReq EXCEPT !.method = "GET", !.path = "fulltext", !.key = k]

\* getItemFulltext is called: request runs up to the first await of throttle.
\* chunks are the pages the caller has got so far when it follows nextOffset.
StartFulltext(p, k, offset, limit, chunks, hostile) ==
    /\ Idle(p)
    /\ started < MaxOps
    /\ started' = started + 1
    /\ Throttle(p, [IdleProc EXCEPT !.op = "getItemFulltext", !.key = k,
                       !.stage = "fulltext",
                       !.input = [offset |-> offset, limit |-> limit,
                                  chunks |-> chunks],
                       !.req = FulltextReq(k)],
                backoffUntil, hostile)
    /\ UNCHANGED <<clock, libraryVersion, backoffUntil, maxSeen>>
    /\ UNCHANGED <<cacheVars, restVars>>

\* lines 415-453: the page on success; in the catch, null when the message
\* of the error includes 404, else the error is thrown again.
FulltextReturn(pr, r, res) ==
    IF res.kind = "ok"
    THEN [pr EXCEPT !.pc = "done", !.result = res,
                    !.output = FulltextPage(r.content, pr.input.offset,
                                            pr.input.limit)]
    ELSE IF Includes404(ErrorMessage(res, r))
    THEN [pr EXCEPT !.pc = "done", !.result = OkResult, !.output = NullPage]
    ELSE [pr EXCEPT !.pc = "failed", !.result = res,
                    !.output = ErrorMessage(res, r)]

-----------------------------------------------------------------------------
(* ZoteroClient.createItem, lines 248-270, and getLibraryVersion, 275-287 *)

\* getLibraryVersion, lines 280-283
SeedReq ==
    [NoReq EXCEPT !.method = "GET", !.path = "items", !.params = ("limit" :> 1)]

\* getLibraryVersion, line 285: headers.lastModifiedVersion || 0
SeededVersion(r) == IF r.lmv # None /\ r.lmv # 0 THEN r.lmv ELSE 0

\* The write sent without a precondition.
PostPreconditionNone(lv) == None

\* request, lines 124-126, with requireVersion: the header, if any
PostPrecondition(lv) == lv

\* createItem, lines 254-258: the batch of one
CreateReq(itemData, lv) ==
    [NoReq EXCEPT !.method = "POST", !.path = "items",
                  !.ifUnmod = PostPrecondition(lv), !.batch = <<itemData>>]

Lookup(map, index) == IF index \in DOMAIN map THEN map[index] ELSE "undefined"

CreateFailed == [kind |-> "createFailed", status |-> 0, wait |-> 0]

NoCreated == [key |-> "none", message |-> <<>>]

\* The key of submission 0 returned whatever the maps hold.
CreateOutcomeUnchecked(pr, data) ==
    [pr EXCEPT !.pc = "done", !.result = OkResult,
               !.output = [NoCreated EXCEPT !.key = Lookup(data.success, "0")]]

\* createItem, lines 260-269
CreateOutcome(pr, data) ==
    IF DOMAIN data.success # {}
    THEN [pr EXCEPT !.pc = "done", !.result = OkResult,
                    !.output = [NoCreated EXCEPT
                                   !.key = Lookup(data.success, "0")]]
    ELSE IF DOMAIN data.failed # {}
    THEN [pr EXCEPT !.pc = "failed", !.result = CreateFailed,
                    !.output = [NoCreated EXCEPT !.message =
                        <<"Failed to create item: ",
                          Lookup(data.failed, "0").message>>]]
    ELSE [pr EXCEPT !.pc = "failed", !.result = CreateFailed,
                    !.output = [NoCreated EXCEPT !.message =
                        <<"Unknown error creating item">>]]

\* createItem is called: getLibraryVersion returns at once when the version is
\* known, and the POST is built; else the seeding read is built. Either request
\* runs up to the first await of throttle. The input keeps what the call found.
StartCreate(p, itemData, hostile) ==
    /\ Idle(p)
    /\ started < MaxOps
    /\ started' = started + 1
    /\ LET seeded == libraryVersion # None
           rq == IF seeded THEN CreateReq(itemData, libraryVersion) ELSE SeedReq
       IN Throttle(p, [IdleProc EXCEPT !.op = "createItem",
                          !.stage = IF seeded THEN "post" ELSE "seed",
                          !.input = [itemData |-> itemData, seeded |-> seeded],
                          !.req = rq],
                   backoffUntil, hostile)
    /\ UNCHANGED <<clock, libraryVersion, backoffUntil, maxSeen>>
    /\ UNCHANGED <<cacheVars, restVars>>

-----------------------------------------------------------------------------
(* ZoteroClient.searchItems, lines 179-203 *)

\* lines 183-185: the endpoint
SearchPath(params) ==
    IF "collectionKey" \in params.has
    THEN "collections/items/top"
    ELSE "items/top"

\* lines 188-196 and request, lines 106-112: the parameters that are set
SearchQuery(params) ==
    LET defaults == ("limit" :> 25) @@ ("start" :> 0)
                    @@ ("sort" :> "dateModified") @@ ("direction" :> "desc")
    IN  IF "itemType" \in params.has
        THEN ("itemType" :> params.itemType) @@ defaults
        ELSE defaults

SearchReq(params) ==
    [NoReq EXCEPT !.method = "GET", !.path = SearchPath(params),
                  !.key = IF "collectionKey" \in params.has
                          THEN params.collectionKey ELSE "none",
                  !.params = SearchQuery(params)]

\* searchItems(params) is called: request runs up to the first await of
\* throttle.
StartSearch(p, params, hostile) ==
    /\ Idle(p)
    /\ started < MaxOps
    /\ started' = started + 1
    /\ Throttle(p, [IdleProc EXCEPT !.op = "searchItems", !.stage = "get",
                       !.input = params, !.req = SearchReq(params)],
                backoffUntil, hostile)
    /\ UNCHANGED <<clock, libraryVersion, backoffUntil, maxSeen>>
    /\ UNCHANGED <<cacheVars, restVars>>

-----------------------------------------------------------------------------
(* ZoteroClient.exportItems, lines 302-319, and the decoding of the body by *)
(* request, lines 164-173                                                   *)

ExportFormats ==
    {"bibtex", "ris", "csljson", "bibliography", "coins", "refer", "tei"}

\* line 309: itemKeys.join(','), as the keys with the commas between them
RECURSIVE JoinKeys(_)
JoinKeys(itemKeys) ==
    IF Len(itemKeys) <= 1 THEN itemKeys
    ELSE <<itemKeys[1], ",">> \o JoinKeys(Tail(itemKeys))

\* The style sent whenever one is given.
ExportParamsAnyFormat(itemKeys, format, style) ==
    LET params == ("itemKey" :> JoinKeys(itemKeys)) @@ ("format" :> format)
    IN  IF style \notin {"undefined", ""}
        THEN ("style" :> style) @@ params
        ELSE params

\* lines 308-315: the parameters
ExportParams(itemKeys, format, style) ==
    LET params == ("itemKey" :> JoinKeys(itemKeys)) @@ ("format" :> format)
    IN  IF style \notin {"undefined", ""} /\ format = "bibliography"
        THEN ("style" :> style) @@ params
        ELSE params

ExportReq(itemKeys, format, style) ==
    [NoReq EXCEPT !.method = "GET", !.path = "items",
                  !.params = ExportParams(itemKeys, format, style)]

\* request, lines 165-171: response.json() when the content type includes
\* 'application/json', else response.text()
Decode(r) ==
    IF Holds(r.contentType, <<"application/json">>)
    THEN [kind |-> "parsed", text |-> r.text]
    ELSE [kind |-> "string", text |-> r.text]

\* exportItems(itemKeys, format, style) is called: request runs up to the
\* first await of throttle.
StartExport(p, itemKeys, format, style, hostile) ==
    /\ Idle(p)
    /\ started < MaxOps
    /\ started' = started + 1
    /\ Throttle(p, [IdleProc EXCEPT !.op = "exportItems", !.stage = "export",
                       !.input = [format |-> format, style |-> style,
                                  itemKeys |-> itemKeys],
                       !.req = ExportReq(itemKeys, format, style)],
                backoffUntil, hostile)
    /\ UNCHANGED <<clock, libraryVersion, backoffUntil, maxSeen>>
    /\ UNCHANGED <<cacheVars, restVars>>

-----------------------------------------------------------------------------
(* The responses *)

Finish(p, pr) ==
    /\ proc' = [proc EXCEPT ![p] = pr]
    /\ UNCHANGED <<lastRequestTime, serverVersion, items, cooled, failing, nSent,
                   firstDispatch>>

\* The code that runs when the response of p's request arrives: the rest of
\* request (or of updateItem for its own fetch), then the caller's code up to
\* the next await.
Receive(p, hostile) ==
    /\ proc[p].pc = "inflight"
    /\ LET pr == proc[p]
           r == pr.resp
           direct == pr.stage = "write"
           lv == IF direct THEN DirectVersionAfter(libraryVersion, r)
                 ELSE IF pr.stage = "seed" /\ RequestResult(r).kind = "ok"
                 THEN SeededVersion(r)
                 ELSE VersionAfter(libraryVersion, r)
           bo == IF direct THEN DirectBackoffAfter(backoffUntil, r, clock)
                 ELSE BackoffAfter(backoffUntil, r, clock)
           res == IF direct THEN DirectResult(r) ELSE RequestResult(r)
       IN /\ libraryVersion' = lv
          /\ backoffUntil' = bo
          /\ maxSeen' = IF r.lmv # None /\ (~direct \/ Ok(r.status))
                      THEN Max(maxSeen, r.lmv) ELSE maxSeen
          /\ IF pr.stage = "fulltext"
             THEN Finish(p, FulltextReturn(pr, r, res))
             ELSE IF res.kind # "ok"
             THEN Finish(p, [pr EXCEPT !.pc = "failed", !.result = res,
                                       !.output = ErrorMessage(res, r)])
             ELSE IF pr.stage \in {"get", "write"}
             THEN Finish(p, [pr EXCEPT !.pc = "done", !.result = res])
             ELSE IF pr.stage = "export"
             THEN Finish(p, [pr EXCEPT !.pc = "done", !.result = res,
                                       !.output = Decode(r)])
             ELSE IF pr.stage = "post"
             THEN Finish(p, CreateOutcome(pr, r.data))
             ELSE IF pr.stage = "seed"
             THEN \* createItem, lines 252-258: the write follows the seeding
                  Throttle(p, [pr EXCEPT !.stage = "post",
                                  !.req = CreateReq(pr.input.itemData, lv)],
                           bo, hostile)
             ELSE IF pr.stage = "member"
             THEN \* addItemToCollection, lines 484-496: return when the item
                  \* is a member, else append and updateItem
                  IF IncludesKey(r.item.data.collections, pr.input.collectionKey)
                  THEN Finish(p, [pr EXCEPT !.pc = "done", !.result = res,
                                            !.item = r.item,
                                            !.input.read = r.item])
                  ELSE Throttle(p, [pr EXCEPT !.stage = "read", !.item = r.item,
                                       !.input.read = r.item,
                                       !.arg = Partial("collections",
                                           MergeCollections(
                                               r.item.data.collections,
                                               pr.input.collectionKey)),
                                       !.req = GetItemReq(pr.key)],
                                bo, hostile)
             ELSE IF pr.stage = "merge"
             THEN \* addTagsToItem, lines 461-473: merge, then updateItem
                  Throttle(p, [pr EXCEPT !.stage = "read", !.item = r.item,
                                  !.input = [read |-> r.item],
                                  !.arg = Partial("tags",
                                      MergeTags(r.item.data.tags, pr.tagsArg)),
                                  !.req = GetItemReq(pr.key)],
                           bo, hostile)
             ELSE \* updateItem, lines 329-342: the write follows the read
                  Throttle(p, [pr EXCEPT !.stage = "write", !.item = r.item,
                                  !.req = PatchReq(pr.key, r.item, pr.arg)],
                           bo, hostile)
    /\ UNCHANGED <<clock, started>>
    /\ UNCHANGED <<cacheVars, restVars>>

NetworkError == [kind |-> "networkError", status |-> 0, wait |-> 0]

\* The fetch of p's request rejects (no connection, a timeout, an abort): the
\* error leaves request, or updateItem, at line 132 or 343, and the call ends
\* with it.
NetworkFails(p) ==
    /\ proc[p].pc = "inflight"
    /\ Finish(p, [proc[p] EXCEPT !.pc = "failed", !.result = NetworkError,
                                 !.resp = NoResp])
    /\ UNCHANGED <<clock, libraryVersion, backoffUntil, started, maxSeen>>
    /\ UNCHANGED <<cacheVars, restVars>>

-----------------------------------------------------------------------------
(* CacheManager: the attachment cache on disk.  Every file-system call of a *)
(* save is one step; it can fail, and a failed write can leave a partial    *)
(* file behind.                                                             *)

Libs == {"user_1", "group_1"}          \* libraryPrefix of a CacheManager
CacheKeys == {"K1"}
Filenames == {"f.pdf", "g.pdf"}
Versions == {1, 2}
CacheCallers == {1}

\* The callers of save when saves run concurrently.
SaveCallers == {1, 2}

\* An item key that is a relative path into the other library's directory.
OutsideKey == "../group_1/K1"

\* The segments of a path, split at the separators.
Segments(path) ==
    IF path = OutsideKey THEN <<"..", "group_1", "K1">> ELSE <<path>>

\* path.join normalizes the path: a '..' segment takes the segment before it
\* away.
RECURSIVE Normalize(_, _)
Normalize(done, rest) ==
    IF rest = <<>> THEN done
    ELSE IF rest[1] = ".." /\ done # <<>>
    THEN Normalize(SubSeq(done, 1, Len(done) - 1), Tail(rest))
    ELSE Normalize(Append(done, rest[1]), Tail(rest))

\* getItemCacheDir: join(cacheDir, 'files', libraryPrefix, itemKey), as the
\* path below <cacheDir>/files
getItemCacheDir(lib, itemKey) == Normalize(<<>>, <<lib>> \o Segments(itemKey))

Dirs == { getItemCacheDir(lib, k) : lib \in Libs, k \in CacheKeys }

\* The bytes of an attachment are those of its version: a file on disk holds
\* all of them, a part of them, or a mix of two versions' bytes.
NoFile == [data |-> 0, state |-> "none"]
Whole(v) == [data |-> v, state |-> "full"]
PartOf(v) == [data |-> v, state |-> "part"]
Mixed == [data |-> 0, state |-> "mixed"]

NoMeta == [state |-> "absent", version |-> None, filename |-> "none"]
TornMeta == [state |-> "torn", version |-> None, filename |-> "none"]

EmptyDir == [exists |-> FALSE,
             bin |-> [f \in Filenames |-> NoFile],
             tmp |-> [f \in Filenames |-> NoFile],
             meta |-> NoMeta]

\* What the three reads of an entry returned, or that one of them raised.
NoRead == [raised |-> FALSE, isValid |-> FALSE, meta |-> NoMeta,
           path |-> "none"]

IdleCall == [op |-> "idle", pc |-> "idle", lib |-> "none",
             dir |-> <<"none", "none">>,
             filename |-> "none", version |-> None, append |-> FALSE,
             result |-> NoRead]

\* A call that has returned ("done") or thrown ("failed"): its locals are
\* gone.
Ended(call, pc) == [IdleCall EXCEPT !.pc = pc]

\* getMeta: the parsed sidecar, or null (NoMeta) when it cannot be read or
\* parsed.
getMeta(d) == IF fs[d].meta.state = "ok" THEN fs[d].meta ELSE NoMeta

\* isValid without the comparison of versions.
isValidAnyVersion(d, currentVersion) ==
    LET meta == getMeta(d) IN
    IF meta = NoMeta THEN FALSE
    ELSE fs[d].bin[meta.filename] # NoFile

\* isValid, part_008 lines 85-100
isValid(d, currentVersion) ==
    LET meta == getMeta(d) IN
    IF meta = NoMeta THEN FALSE
    ELSE IF meta.version # currentVersion THEN FALSE
    ELSE fs[d].bin[meta.filename] # NoFile

\* getCachedFilePath without the stat of the file.
getCachedFilePathNoStat(d) ==
    LET meta == getMeta(d) IN
    IF meta = NoMeta THEN "none" ELSE meta.filename

\* getCachedFilePath: the file's name, or "none" for null.
getCachedFilePath(d) ==
    LET meta == getMeta(d) IN
    IF meta = NoMeta THEN "none"
    ELSE IF fs[d].bin[meta.filename] # NoFile THEN meta.filename
    ELSE "none"

CallIdle(c) == cproc[c].pc \in {"idle", "done", "failed"}

\* part_008 lines 92 and 108: join(itemDir, meta.filename) is outside the try
\* and throws when the parsed sidecar has no filename.
ReadRaises(d) ==
    LET meta == getMeta(d) IN meta # NoMeta /\ meta.filename \notin Filenames

\* getMeta(key), isValid(key, v) and getCachedFilePath(key) called one after
\* the other on the entry in d: what each returns.  None of them writes.
Read(c, d, v) ==
    /\ CallIdle(c)
    /\ cstarted < MaxCacheOps
    /\ cstarted' = cstarted + 1
    /\ cproc' = [cproc EXCEPT ![c] =
          [IdleCall EXCEPT !.op = "read", !.pc = "done", !.dir = d,
                           !.version = v,
                           !.result = [raised |-> ReadRaises(d),
                                       isValid |-> isValid(d, v),
                                       meta |-> getMeta(d),
                                       path |-> getCachedFilePath(d)]]]
    /\ UNCHANGED <<fs, saved>>
    /\ UNCHANGED <<clientVars, restVars>>

AtRest == \A c \in CacheCallers : CallIdle(c)

\* A file named f was written in d: an earlier external removal of it is over.
Rewritten(log, f) ==
    [i \in DOMAIN log |->
        IF log[i].filename = f THEN [log[i] EXCEPT !.removed = FALSE]
        ELSE log[i]]

Removed(log, f) ==
    [i \in DOMAIN log |->
        IF log[i].filename = f THEN [log[i] EXCEPT !.removed = TRUE]
        ELSE log[i]]

\* save / saveFromStream from the call to the end of mkdir(itemDir).
SaveEnter(c, lib, d, f, v, stream, append) ==
    /\ CallIdle(c)
    /\ cstarted < MaxCacheOps
    /\ cstarted' = cstarted + 1
    /\ \E okay \in BOOLEAN :
          /\ cproc' = [cproc EXCEPT ![c] =
                LET call == [op |-> IF stream THEN "saveFromStream" ELSE "save",
                             pc |-> IF stream THEN "pipe" ELSE "writeFile",
                             lib |-> lib, dir |-> d, filename |-> f,
                             version |-> v,
                             append |-> append, result |-> NoRead]
                IN IF okay THEN call ELSE Ended(call, "failed")]
          /\ fs' = IF okay THEN [fs EXCEPT ![d].exists = TRUE] ELSE fs
    /\ UNCHANGED saved

\* A save called on its own.
SaveCall(c, lib, d, f, v, stream, append) ==
    /\ SaveEnter(c, lib, d, f, v, stream, append)
    /\ UNCHANGED <<clientVars, restVars>>

\* save, part_008 line 134: writeFile(filePath, content)
WriteFile(c) ==
    /\ cproc[c].pc = "writeFile"
    /\ LET d == cproc[c].dir
           f == cproc[c].filename
           v == cproc[c].version
       IN \E out \in {"ok", "partial", "nothing"} :
             IF ~fs[d].exists \/ out = "nothing"
             THEN /\ cproc' = [cproc EXCEPT ![c] = Ended(cproc[c], "failed")]
                  /\ UNCHANGED <<fs, saved>>
             ELSE /\ fs' = [fs EXCEPT ![d].bin[f] =
                              IF out = "ok" THEN Whole(v) ELSE PartOf(v)]
                  /\ saved' = [saved EXCEPT ![d] = Rewritten(saved[d], f)]
                  /\ cproc' = [cproc EXCEPT ![c] =
                              IF out = "ok" THEN [cproc[c] EXCEPT !.pc = "writeMeta"]
                              ELSE Ended(cproc[c], "failed")]
    /\ UNCHANGED cstarted
    /\ UNCHANGED <<clientVars, restVars>>

\* What the temporary file holds when the stream has been written to it: with
\* append the stream is the rest of the download and goes after what is there.
Piped(old, v, append) ==
    IF ~append \/ old = NoFile \/ old = PartOf(v) THEN Whole(v) ELSE Mixed

PipedPartly(old, v, append) ==
    IF ~append \/ old = NoFile \/ old = PartOf(v) THEN PartOf(v) ELSE Mixed

\* saveFromStream, part_007 lines 211-221: the stream goes to the temporary
\* file <filename>.downloading
Pipe(c) ==
    /\ cproc[c].pc = "pipe"
    /\ LET d == cproc[c].dir
           f == cproc[c].filename
           v == cproc[c].version
           a == cproc[c].append
       IN \E out \in {"ok", "partial", "nothing"} :
             IF ~fs[d].exists \/ out = "nothing"
             THEN /\ cproc' = [cproc EXCEPT ![c] = Ended(cproc[c], "failed")]
                  /\ UNCHANGED fs
             ELSE /\ fs' = [fs EXCEPT ![d].tmp[f] =
                              IF out = "ok" THEN Piped(fs[d].tmp[f], v, a)
                              ELSE PipedPartly(fs[d].tmp[f], v, a)]
                  /\ cproc' = [cproc EXCEPT ![c] =
                              IF out = "ok" THEN [cproc[c] EXCEPT !.pc = "rename"]
                              ELSE Ended(cproc[c], "failed")]
    /\ UNCHANGED <<cstarted, saved>>
    /\ UNCHANGED <<clientVars, restVars>>

\* saveFromStream, part_007 line 225: rename(tempPath, finalPath)
Rename(c) ==
    /\ cproc[c].pc = "rename"
    /\ LET d == cproc[c].dir
           f == cproc[c].filename
       IN \E okay \in BOOLEAN :
             IF ~fs[d].exists \/ fs[d].tmp[f] = NoFile \/ ~okay
             THEN /\ cproc' = [cproc EXCEPT ![c] = Ended(cproc[c], "failed")]
                  /\ UNCHANGED <<fs, saved>>
             ELSE /\ fs' = [fs EXCEPT ![d].bin[f] = fs[d].tmp[f],
                                      ![d].tmp[f] = NoFile]
                  /\ saved' = [saved EXCEPT ![d] = Rewritten(saved[d], f)]
                  /\ cproc' = [cproc EXCEPT ![c].pc = "writeMeta"]
    /\ UNCHANGED cstarted
    /\ UNCHANGED <<clientVars, restVars>>

\* The sidecar written without the version of the caller's meta.
FullMetaNoVersion(f, v) == [state |-> "ok", version |-> None, filename |-> f]

\* The sidecar a save writes (downloadedAt left out).
FullMeta(f, v) == [state |-> "ok", version |-> v, filename |-> f]

\* save line 141 / saveFromStream line 232: writeFile(metaPath, ...); then
\* the call returns the file's path.
WriteMeta(c) ==
    /\ cproc[c].pc = "writeMeta"
    /\ LET d == cproc[c].dir
           f == cproc[c].filename
           v == cproc[c].version
       IN \E out \in {"ok", "partial", "nothing"} :
             IF ~fs[d].exists \/ out = "nothing"
             THEN /\ cproc' = [cproc EXCEPT ![c] = Ended(cproc[c], "failed")]
                  /\ UNCHANGED <<fs, saved>>
             ELSE /\ fs' = [fs EXCEPT ![d].meta =
                              IF out = "ok" THEN FullMeta(f, v) ELSE TornMeta]
                  /\ saved' = [saved EXCEPT ![d] = Append(saved[d],
                                 [version |-> v, filename |-> f,
                                  ok |-> out = "ok",
                                  removed |-> fs[d].bin[f] = NoFile])]
                  /\ cproc' = [cproc EXCEPT ![c] =
                              Ended(cproc[c], IF out = "ok" THEN "done"
                                              ELSE "failed")]
    /\ UNCHANGED cstarted
    /\ UNCHANGED <<clientVars, restVars>>

\* The directories rm(..., {recursive: true}) removes.
InvalidateTargets(lib, k) == { getItemCacheDir(lib, k) }

ClearAllTargets(lib) == { getItemCacheDir(lib, k) : k \in CacheKeys }

\* rm(dir, { recursive: true }) in a try whose catch is empty: the directory
\* is removed, or rm throws (no such directory, or a file that cannot be
\* removed), nothing is removed and the call returns all the same.
RemoveDirs(c, op, lib, k, targets) ==
    /\ CallIdle(c)
    /\ cstarted < MaxCacheOps
    /\ cstarted' = cstarted + 1
    /\ \E removed \in BOOLEAN :
          /\ fs' = [d \in Dirs |->
                      IF removed /\ d \in targets THEN EmptyDir ELSE fs[d]]
          /\ saved' = [d \in Dirs |->
                         IF removed /\ d \in targets THEN <<>> ELSE saved[d]]
    /\ cproc' = [cproc EXCEPT ![c] =
          Ended([IdleCall EXCEPT !.op = op], "done")]
    /\ UNCHANGED <<clientVars, restVars>>

\* invalidate, part_008 lines 149-156
Invalidate(c, lib, k) ==
    RemoveDirs(c, "invalidate", lib, k, InvalidateTargets(lib, k))

\* clearAll, part_008 lines 161-168
ClearAll(c, lib) ==
    RemoveDirs(c, "clearAll", lib, "none", ClearAllTargets(lib))

\* Something outside the program removes a cached binary.
ExternalRemove(d, f) ==
    /\ fs[d].bin[f] # NoFile
    /\ cstarted < MaxCacheOps
    /\ cstarted' = cstarted + 1
    /\ fs' = [fs EXCEPT ![d].bin[f] = NoFile]
    /\ saved' = [saved EXCEPT ![d] = Removed(saved[d], f)]
    /\ UNCHANGED cproc
    /\ UNCHANGED <<clientVars, restVars>>

-----------------------------------------------------------------------------
(* ZoteroClient.downloadAttachment and clearAttachmentCache: the attachment *)
(* operations of the client over its CacheManager.                          *)

\* The library identity of the client's CacheManager.
ClientLib == "user_1"

StorageLinkModes == {"imported_file", "imported_url"}

LinkModes == StorageLinkModes \cup {"linked_file", "linked_url"}

\* What the item of a key can be: an attachment of some link mode, or an item
\* of another type.
ItemKinds ==
    { [itemType |-> "attachment", linkMode |-> m] : m \in LinkModes }
    \cup { [itemType |-> "journalArticle", linkMode |-> "none"] }

AttachmentFilename == "f.pdf"

NoDlResult == [kind |-> "none", path |-> <<>>, fromCache |-> FALSE,
               message |-> <<>>]

DlError(message) == [NoDlResult EXCEPT !.kind = "error", !.message = message]

DlOk(path, fromCache) ==
    [NoDlResult EXCEPT !.kind = "ok", !.path = path, !.fromCache = fromCache]

NoDl == [pc |-> "idle", key |-> "none", force |-> FALSE, version |-> None,
         emptyAtStart |-> FALSE, opsAtStart |-> 0, downloadsAtStart |-> 0]

DlIdle == dl.pc = "idle"

\* The number of calls that have ended.
DlEnded == IF dlog = <<>> THEN 0 ELSE dlog[Len(dlog)].n

\* The log with one more call: the last two calls are kept.
Logged(entry) ==
    IF dlog = <<>> THEN <<entry>> ELSE <<dlog[Len(dlog)], entry>>

\* The call ends: its result is recorded and the caller has it.
DlEnd(result, ops, downloads) ==
    /\ dl' = NoDl
    /\ dlog' = Logged(
          [n |-> DlEnded + 1, key |-> dl.key, force |-> dl.force, version |-> dl.version,
           emptyAtStart |-> dl.emptyAtStart, opsAtStart |-> dl.opsAtStart,
           opsAtEnd |-> ops, downloads |-> downloads - dl.downloadsAtStart,
           result |-> result])

\* downloadAttachment(key, {force}) is called: the item is requested.
DlStart(k, force) ==
    /\ DlIdle
    /\ AtRest
    /\ DlEnded < MaxDlCalls
    /\ dl' = [NoDl EXCEPT !.pc = "getItem", !.key = k, !.force = force,
                          !.emptyAtStart = fs[getItemCacheDir(ClientLib, k)] = EmptyDir,
                          !.opsAtStart = cstarted,
                          !.downloadsAtStart = nDownloads]
    /\ UNCHANGED <<att, nDownloads, dlog, fulltext, trVars>>
    /\ UNCHANGED <<clientVars, cacheVars>>

\* The file's path in the cache: the directory and the name.
CachePath(d, f) == <<d[1], d[2], f>>

\* Any item taken as a downloadable attachment.
ValidationErrorNone(k, item) == <<>>

\* The message of the error that the validation of the item raises (none: the
\* item is an attachment stored as a file).
ValidationError(k, item) ==
    IF item.itemType # "attachment"
    THEN <<"Item", k, "is", "not an attachment">>
    ELSE IF item.linkMode \notin StorageLinkModes
    THEN <<"Unsupported link mode", item.linkMode>>
    ELSE <<>>

\* The item has arrived (or the request failed): the type and link mode are
\* validated, then the cache is consulted unless the call is forced.
DlGotItem ==
    /\ dl.pc = "getItem"
    /\ LET item == att[dl.key]
           d == getItemCacheDir(ClientLib, dl.key)
       IN \E okay \in BOOLEAN :
             IF ~okay
             THEN DlEnd(DlError(<<"request failed">>), cstarted, nDownloads)
             ELSE IF ValidationError(dl.key, item) # <<>>
             THEN DlEnd(DlError(ValidationError(dl.key, item)),
                        cstarted, nDownloads)
             ELSE IF /\ ~dl.force
                     /\ isValid(d, item.version)
                     /\ getCachedFilePath(d) # "none"
             THEN /\ dl' = NoDl
                  /\ dlog' = Logged(
                        [n |-> DlEnded + 1, key |-> dl.key, force |-> dl.force,
                         version |-> item.version,
                         emptyAtStart |-> dl.emptyAtStart,
                         opsAtStart |-> dl.opsAtStart, opsAtEnd |-> cstarted,
                         downloads |-> nDownloads - dl.downloadsAtStart,
                         result |-> DlOk(CachePath(d, getCachedFilePath(d)), TRUE)])
             ELSE /\ dl' = [dl EXCEPT !.pc = "download",
                                      !.version = item.version]
                  /\ UNCHANGED dlog
    /\ UNCHANGED <<att, nDownloads, fulltext, trVars>>
    /\ UNCHANGED <<clientVars, cacheVars>>

\* The binary download has ended: its bytes are handed to the cache's save,
\* keyed to the version that was read.
DlDownloaded ==
    /\ dl.pc = "download"
    /\ nDownloads' = nDownloads + 1
    /\ \E okay \in BOOLEAN :
          IF okay
          THEN /\ SaveEnter(1, ClientLib, getItemCacheDir(ClientLib, dl.key),
                            AttachmentFilename, dl.version, FALSE, FALSE)
               /\ dl' = [dl EXCEPT !.pc = "save"]
               /\ UNCHANGED dlog
          ELSE /\ DlEnd(DlError(<<"download failed">>), cstarted, nDownloads + 1)
               /\ UNCHANGED cacheVars
    /\ UNCHANGED <<att, fulltext, trVars>>
    /\ UNCHANGED clientVars

\* save has returned the path, or thrown.
DlSaved ==
    /\ dl.pc = "save"
    /\ CallIdle(1)
    /\ IF cproc[1].pc = "done"
       THEN DlEnd(DlOk(CachePath(getItemCacheDir(ClientLib, dl.key),
                                 AttachmentFilename), FALSE),
                  cstarted, nDownloads)
       ELSE DlEnd(DlError(<<"save failed">>), cstarted, nDownloads)
    /\ UNCHANGED <<att, nDownloads, fulltext, trVars>>
    /\ UNCHANGED <<clientVars, cacheVars>>

\* clearAttachmentCache(key): the cache's invalidate.
ClearAttachmentCache(k) ==
    /\ DlIdle
    /\ AtRest
    /\ Invalidate(1, ClientLib, k)

\* The attachment is modified on the server: its version goes up.
Touch(k) ==
    /\ att[k].version + 1 \in Versions
    /\ att' = [att EXCEPT ![k].version = att[k].version + 1]
    /\ UNCHANGED <<dl, nDownloads, dlog, fulltext, trVars>>
    /\ UNCHANGED <<clientVars, cacheVars>>

InitDlCalls ==
    /\ dl = NoDl
    /\ nDownloads = 0
    /\ dlog = <<>>

\* No attachment operation is in use: the item of each key is a stored file.
InitDl ==
    /\ att = [k \in CacheKeys |->
                [itemType |-> "attachment", linkMode |-> "imported_file",
                 version |-> 1]]
    /\ InitDlCalls

-----------------------------------------------------------------------------
(* TranslationClient (src/src/translation-client.ts)                        *)

DEFAULT_TRANSLATION_SERVER_URL == "http://localhost:1969"

\* constructor, lines 13-15: baseUrl || DEFAULT_TRANSLATION_SERVER_URL
TranslationClient(baseUrl) ==
    [baseUrl |-> IF baseUrl \in {"undefined", ""}
                 THEN DEFAULT_TRANSLATION_SERVER_URL ELSE baseUrl]

NoFetch == [method |-> "none", url |-> <<>>, contentType |-> "none",
            body |-> "none"]

\* What a fetch ends with: a response, or a thrown error.
NoOutcome == [kind |-> "none", status |-> 0, text |-> <<>>, json |-> <<>>,
              class |-> "none", message |-> <<>>]

Response(status, text, json) ==
    [NoOutcome EXCEPT !.kind = "response", !.status = status, !.text = text,
                      !.json = json]

Thrown(class, message) ==
    [NoOutcome EXCEPT !.kind = "thrown", !.class = class, !.message = message]

\* The metadata the translators give for an identifier.
Translated(identifier) == <<[itemType |-> "journalArticle", DOI |-> identifier]>>

\* What the Translation Server answers, or what fetch throws when no
\* connection can be made.
FetchOutcomes(rq) ==
    { Response(200, <<>>, Translated(rq.body)) }
    \cup { Response(st, text, <<>>) :
              st \in {300, 400, 404, 500, 501, 503}, text \in ErrorBodies }
    \cup { Thrown("TypeError", <<"fetch", " failed">>) }

NoTr == [pc |-> "idle", op |-> "none", identifier |-> "none", fetches |-> <<>>,
         outcome |-> NoOutcome, result |-> NoOutcome, available |-> FALSE]

\* search, lines 25-31
SearchFetch(baseUrl, identifier) ==
    [NoFetch EXCEPT !.method = "POST", !.url = <<baseUrl, "/search">>,
                    !.contentType = "text/plain", !.body = identifier]

\* search(identifier) is called: the request is sent.
TrSearch(identifier) ==
    /\ tr.pc # "inflight"
    /\ trCalls < MaxTrCalls
    /\ trCalls' = trCalls + 1
    /\ tr' = [NoTr EXCEPT !.pc = "inflight", !.op = "search",
                          !.identifier = identifier,
                          !.fetches = <<SearchFetch(tc.baseUrl, identifier)>>]
    /\ UNCHANGED <<tc, dlVars, fulltext, clientVars, cacheVars>>

\* The 501 answer reported like any other failure status.
SearchTryAnyStatus(identifier, response) ==
    IF response.status = 500
    THEN Thrown("Error", <<"Translation server error processing: ", identifier>>)
    ELSE IF ~Ok(response.status)
    THEN Thrown("Error", <<"Translation server error (">>
                          \o Digits(response.status) \o <<"): ">>
                          \o response.text)
    ELSE Response(response.status, <<>>, response.json)

\* search, lines 33-47: what the try block returns or throws for a response
SearchTry(identifier, response) ==
    IF response.status = 501
    THEN Thrown("Error", <<"No translator found for identifier: ", identifier>>)
    ELSE IF response.status = 500
    THEN Thrown("Error", <<"Translation server error processing: ", identifier>>)
    ELSE IF ~Ok(response.status)
    THEN Thrown("Error", <<"Translation server error (">>
                          \o Digits(response.status) \o <<"): ">>
                          \o response.text)
    ELSE Response(response.status, <<>>, response.json)

\* error.message.includes('fetch')
IncludesFetch(message) == \E i \in DOMAIN message : message[i] = "fetch"

HowToStart ==
    ". Please ensure it is running: docker run -d -p 1969:1969 zotero/translation-server"

\* search, lines 48-56: the catch
SearchCatch(baseUrl, error) ==
    IF error.class = "TypeError" /\ IncludesFetch(error.message)
    THEN Thrown("Error", <<"Cannot connect to Translation Server at ", baseUrl,
                           HowToStart>>)
    ELSE error

\* search, lines 24-56
SearchResult(baseUrl, identifier, outcome) ==
    LET tried == IF outcome.kind = "thrown" THEN outcome
                 ELSE SearchTry(identifier, outcome)
    IN  IF tried.kind = "thrown" THEN SearchCatch(baseUrl, tried) ELSE tried

\* isAvailable, lines 64-66
AvailableFetch(baseUrl) ==
    [NoFetch EXCEPT !.method = "GET", !.url = <<baseUrl>>]

\* isAvailable() is called: the request is sent.
TrIsAvailable ==
    /\ tr.pc # "inflight"
    /\ trCalls < MaxTrCalls
    /\ trCalls' = trCalls + 1
    /\ tr' = [NoTr EXCEPT !.pc = "inflight", !.op = "isAvailable",
                          !.fetches = <<AvailableFetch(tc.baseUrl)>>]
    /\ UNCHANGED <<tc, dlVars, fulltext, clientVars, cacheVars>>

\* Only a success status taken as a sign of life.
IsUpOkOnly(outcome) == outcome.kind = "response" /\ Ok(outcome.status)

\* isAvailable, lines 63-70
IsUp(outcome) ==
    IF outcome.kind = "thrown" THEN FALSE
    ELSE Ok(outcome.status) \/ outcome.status = 404

\* The fetch of the call has ended: the rest of search or isAvailable runs.
TrSettle ==
    /\ tr.pc = "inflight"
    /\ \E outcome \in FetchOutcomes(tr.fetches[1]) :
          tr' = IF tr.op = "search"
                THEN [tr EXCEPT !.pc = "ended", !.outcome = outcome,
                                !.result = SearchResult(tc.baseUrl, tr.identifier,
                                                        outcome)]
                ELSE [tr EXCEPT !.pc = "ended", !.outcome = outcome,
                                !.result = Response(0, <<>>, <<>>),
                                !.available = IsUp(outcome)]
    /\ UNCHANGED <<tc, trCalls, dlVars, fulltext, clientVars, cacheVars>>

InitTranslation ==
    /\ tc = TranslationClient("undefined")
    /\ tr = NoTr
    /\ trCalls = 0

-----------------------------------------------------------------------------
(* The initial state: a new client, and a library holding the items of Keys *)

InitialData == [NoData EXCEPT !.tags = <<[tag |-> "a", type |-> 1]>>]

InitClient ==
    /\ clock = requestInterval
    /\ libraryVersion = None
    /\ lastRequestTime = 0
    /\ backoffUntil = 0
    /\ proc = [p \in Procs |-> IdleProc]
    /\ started = 0
    /\ serverVersion = 1
    /\ items = [k \in Keys |-> [key |-> k, version |-> 1, data |-> InitialData]]
    /\ cooled = 0
    /\ failing = FALSE
    /\ nSent = 0
    /\ firstDispatch = None
    /\ maxSeen = None

InitCache ==
    /\ fs = [d \in Dirs |-> EmptyDir]
    /\ cproc = [c \in SaveCallers |-> IdleCall]
    /\ cstarted = 0
    /\ saved = [d \in Dirs |-> <<>>]

\* No item has indexed text.
InitFulltext == fulltext = [k \in Keys |-> None]

Init ==
    /\ InitClient
    /\ InitCache
    /\ InitDl
    /\ InitFulltext
    /\ InitTranslation

\* The tag lists given to addTagsToItem: a name the item has, new names, and
\* a list that repeats a name.
TagInputs == { <<"a", "b">>, <<"b", "c">>, <<"c", "c">> }

GetItemCalls == { Call("getItem", k, NoBody, <<>>) : k \in Keys }

\* updateItem(k, {title: ...})
RetitleCalls == { Call("updateItem", k, Partial("title", 1), <<>>) : k \in Keys }

\* updateItem(k, {deleted: 0}): takes the item out of the trash
RestoreCalls == { Call("updateItem", k, Partial("deleted", 0), <<>>) : k \in Keys }

DeleteItemCalls == { Call("deleteItem", k, NoBody, <<>>) : k \in Keys }

AddTagsCalls ==
    { Call("addTagsToItem", k, NoBody, ts) : k \in Keys, ts \in TagInputs }

\* Concurrent callers of one client, and a service that may rate-limit them.
Next ==
    \/ \E p \in Procs : \E c \in GetItemCalls \cup RetitleCalls :
          Start(p, c, TRUE)
    \/ \E p \in Procs : WakeBackoff(p, TRUE)
    \/ \E p \in Procs : WakeInterval(p, TRUE)
    \/ \E p \in Procs : Receive(p, TRUE)
    \/ TickBy(TimeStep)

Spec == Init /\ [][Next]_vars

\* One caller at a time (each operation is awaited before the next one is
\* started) and a service that sends no 429 and no Backoff header.
StartSeq(p, c) ==
    /\ \A q \in Procs : Idle(q)
    /\ Start(p, c, FALSE)

NextSeq ==
    \/ \E p \in Procs :
          \E c \in GetItemCalls \cup RetitleCalls \cup DeleteItemCalls :
             StartSeq(p, c)
    \/ \E p \in Procs : WakeInterval(p, FALSE)
    \/ \E p \in Procs : Receive(p, FALSE)
    \/ TickBy(TimeStep)

SpecSeq == Init /\ [][NextSeq]_vars

\* Concurrent callers that read and write the items, and a service that sends
\* no 429 and no Backoff header.
NextItems ==
    \/ \E p \in Procs :
          \E c \in RestoreCalls \cup DeleteItemCalls \cup AddTagsCalls :
             Start(p, c, FALSE)
    \/ \E p \in Procs : WakeInterval(p, FALSE)
    \/ \E p \in Procs : Receive(p, FALSE)
    \/ TickBy(requestInterval)

SpecItems == Init /\ [][NextItems]_vars

\* The calls on the CacheManagers, one after another, with the file system
\* failing where it may.
NextCache ==
    \/ \E c \in CacheCallers : \E d \in Dirs : \E f \in Filenames :
          \E v \in Versions : \E stream \in BOOLEAN : \E append \in BOOLEAN :
             /\ AtRest
             /\ append => stream
             /\ stream => d[1] = ClientLib    \* streams only in one library
             /\ SaveCall(c, d[1], d, f, v, stream, append)
    \/ \E c \in CacheCallers : WriteFile(c)
    \/ \E c \in CacheCallers : Pipe(c)
    \/ \E c \in CacheCallers : Rename(c)
    \/ \E c \in CacheCallers : WriteMeta(c)
    \/ \E c \in CacheCallers : \E lib \in Libs : \E k \in CacheKeys :
          AtRest /\ Invalidate(c, lib, k)
    \/ \E c \in CacheCallers : \E lib \in Libs : AtRest /\ ClearAll(c, lib)
    \/ \E d \in Dirs : \E f \in Filenames : ExternalRemove(d, f)

SpecCache == Init /\ [][NextCache]_vars

\* The CacheManagers of two libraries, called one after another with the item
\* keys their callers pass: the key of an item, or any other string.
PassedKeys == CacheKeys \cup {OutsideKey}

NextLibraries ==
    \/ \E lib \in Libs : \E k \in PassedKeys : \E f \in Filenames :
          \E v \in Versions :
             /\ AtRest
             /\ SaveCall(1, lib, getItemCacheDir(lib, k), f, v, FALSE, FALSE)
    \/ WriteFile(1)
    \/ WriteMeta(1)
    \/ \E lib \in Libs : \E k \in PassedKeys : AtRest /\ Invalidate(1, lib, k)
    \/ \E lib \in Libs : AtRest /\ ClearAll(1, lib)

SpecLibraries == Init /\ [][NextLibraries]_vars

\* downloadAttachment and clearAttachmentCache called one after another on an
\* item of any kind, while the item may change on the server and the file
\* system may fail.
InitDownload ==
    /\ InitClient
    /\ InitCache
    /\ att \in [CacheKeys -> { [itemType |-> kind.itemType,
                                linkMode |-> kind.linkMode, version |-> 1] :
                                  kind \in ItemKinds }]
    /\ InitDlCalls
    /\ InitFulltext
    /\ InitTranslation

NextDownload ==
    \/ \E k \in CacheKeys : \E force \in BOOLEAN : DlStart(k, force)
    \/ DlGotItem
    \/ DlDownloaded
    \/ WriteFile(1)
    \/ WriteMeta(1)
    \/ DlSaved
    \/ \E k \in CacheKeys : ClearAttachmentCache(k)
    \/ \E k \in CacheKeys : Touch(k)

SpecDownload == InitDownload /\ [][NextDownload]_vars

\* getItemFulltext called by one caller, one call at a time, on an item with
\* or without indexed text; the caller may follow nextOffset. The service
\* sends no failure.
FulltextLengths == {None, 0, 999, 1000, 2500, 100001}

FulltextOffsets == {0 - 5, 0, 1500}

FulltextLimits == {1, 1000, 1200, 60000}

InitPaging ==
    /\ InitClient
    /\ InitCache
    /\ InitDl
    /\ fulltext \in [Keys -> FulltextLengths]
    /\ InitTranslation

\* The caller asks for the chunk after the one it has got.
FollowNextOffset(p, hostile) ==
    /\ proc[p].op = "getItemFulltext"
    /\ proc[p].pc = "done"
    /\ ~proc[p].output.isNull
    /\ proc[p].output.hasMore
    /\ StartFulltext(p, proc[p].key, proc[p].output.nextOffset,
                     proc[p].input.limit,
                     Append(proc[p].input.chunks, proc[p].output), hostile)

NextPaging ==
    \/ \E k \in Keys : \E offset \in FulltextOffsets :
          \E limit \in FulltextLimits :
             StartFulltext(1, k, offset, limit, <<>>, FALSE)
    \/ FollowNextOffset(1, FALSE)
    \/ WakeInterval(1, FALSE)
    \/ Receive(1, FALSE)
    \/ TickBy(requestInterval)

SpecPaging == InitPaging /\ [][NextPaging]_vars

\* getItemFulltext called by one caller against a service that may answer
\* with failures.
InitFailing ==
    /\ InitClient
    /\ InitCache
    /\ InitDl
    /\ fulltext \in [Keys -> {None, 2500}]
    /\ InitTranslation

NextFailing ==
    \/ \E k \in Keys : StartFulltext(1, k, 0, 1000, <<>>, TRUE)
    \/ WakeBackoff(1, TRUE)
    \/ WakeInterval(1, TRUE)
    \/ Receive(1, TRUE)
    \/ TickBy(requestInterval)

SpecFailing == InitFailing /\ [][NextFailing]_vars

\* createItem called by either caller and getItem by the second, concurrently,
\* on a client that starts unseeded, against a service that may rate-limit.
NewItems == { [NoData EXCEPT !.title = 1] }

NextCreate ==
    \/ \E p \in Procs : \E itemData \in NewItems : StartCreate(p, itemData, TRUE)
    \/ \E c \in GetItemCalls : Start(2, c, TRUE)
    \/ \E p \in Procs : WakeBackoff(p, TRUE)
    \/ \E p \in Procs : WakeInterval(p, TRUE)
    \/ \E p \in Procs : Receive(p, TRUE)
    \/ TickBy(requestInterval)

SpecCreate == Init /\ [][NextCreate]_vars

\* searchItems called by concurrent callers with the arguments the search
\* tool passes: a collection or none, includeChildren true, false or absent,
\* an item type or none.
SearchInputs ==
    { [has |-> h, collectionKey |-> "COLL0001", itemType |-> "note",
       includeChildren |-> b] :
         h \in SUBSET {"collectionKey", "itemType"}, b \in {FALSE} }
    \cup
    { [has |-> h \cup {"includeChildren"}, collectionKey |-> "COLL0001",
       itemType |-> "note", includeChildren |-> b] :
         h \in SUBSET {"collectionKey", "itemType"}, b \in BOOLEAN }

NextSearch ==
    \/ \E p \in Procs : \E params \in SearchInputs : StartSearch(p, params, FALSE)
    \/ \E p \in Procs : WakeInterval(p, FALSE)
    \/ \E p \in Procs : Receive(p, FALSE)
    \/ TickBy(requestInterval)

SpecSearch == Init /\ [][NextSearch]_vars

\* getItem called by concurrent callers against a service that may send two
\* rate-limited or Backoff answers instead of MaxCool: the count of those
\* answers starts that much lower.
MaxCooling == 2

InitCooling ==
    /\ clock = requestInterval
    /\ libraryVersion = None
    /\ lastRequestTime = 0
    /\ backoffUntil = 0
    /\ proc = [p \in Procs |-> IdleProc]
    /\ started = 0
    /\ serverVersion = 1
    /\ items = [k \in Keys |-> [key |-> k, version |-> 1, data |-> InitialData]]
    /\ cooled = MaxCool - MaxCooling
    /\ failing = FALSE
    /\ nSent = 0
    /\ firstDispatch = None
    /\ maxSeen = None
    /\ InitCache
    /\ InitDl
    /\ InitFulltext
    /\ InitTranslation

NextCooling ==
    \/ \E p \in Procs : \E c \in GetItemCalls : Start(p, c, TRUE)
    \/ \E p \in Procs : WakeBackoff(p, TRUE)
    \/ \E p \in Procs : WakeInterval(p, TRUE)
    \/ \E p \in Procs : Receive(p, TRUE)
    \/ TickBy(requestInterval)

SpecCooling == InitCooling /\ [][NextCooling]_vars

\* addItemToCollection called by concurrent callers for one collection, on an
\* item that is in no collection, in that one, in another one, or in both.
CollectionKey == "COLL0001"

OtherCollection == "COLL0002"

Memberships ==
    { <<>>, <<CollectionKey>>, <<OtherCollection>>,
      <<OtherCollection, CollectionKey>> }

InitMember ==
    /\ clock = requestInterval
    /\ libraryVersion = None
    /\ lastRequestTime = 0
    /\ backoffUntil = 0
    /\ proc = [p \in Procs |-> IdleProc]
    /\ started = 0
    /\ serverVersion = 1
    /\ \E m \in Memberships :
          items = [k \in Keys |->
                     [key |-> k, version |-> 1,
                      data |-> [InitialData EXCEPT !.collections = m]]]
    /\ cooled = 0
    /\ failing = FALSE
    /\ nSent = 0
    /\ firstDispatch = None
    /\ maxSeen = None
    /\ InitCache
    /\ InitDl
    /\ InitFulltext
    /\ InitTranslation

NextMember ==
    \/ \E p \in Procs : \E k \in Keys :
          StartAddToCollection(p, k, CollectionKey, FALSE)
    \/ \E p \in Procs : WakeInterval(p, FALSE)
    \/ \E p \in Procs : Receive(p, FALSE)
    \/ TickBy(requestInterval)

SpecMember == InitMember /\ [][NextMember]_vars

\* addItemToCollection and addTagsToItem called by concurrent callers, for
\* either collection.
NextCollections ==
    \/ \E p \in Procs : \E k \in Keys :
          \E c \in {CollectionKey, OtherCollection} :
             StartAddToCollection(p, k, c, FALSE)
    \/ \E p \in Procs : \E c \in AddTagsCalls : Start(p, c, FALSE)
    \/ \E p \in Procs : WakeInterval(p, FALSE)
    \/ \E p \in Procs : Receive(p, FALSE)
    \/ TickBy(requestInterval)

SpecCollections == InitMember /\ [][NextCollections]_vars

\* save and saveFromStream called concurrently for one key of one library,
\* with either version, under one filename.
NextSaves ==
    \/ \E c \in SaveCallers : \E v \in Versions : \E stream \in BOOLEAN :
          SaveCall(c, ClientLib, getItemCacheDir(ClientLib, "K1"), "f.pdf", v,
                   stream, FALSE)
    \/ \E c \in SaveCallers : WriteFile(c)
    \/ \E c \in SaveCallers : Pipe(c)
    \/ \E c \in SaveCallers : Rename(c)
    \/ \E c \in SaveCallers : WriteMeta(c)

SpecSaves == Init /\ [][NextSaves]_vars

\* The reads of the cache between the steps of saves and removals, on a
\* file system that may fail and lose a file.
NextReads ==
    \/ \E f \in Filenames : \E v \in Versions :
          AtRest /\ SaveCall(1, ClientLib, getItemCacheDir(ClientLib, "K1"),
                             f, v, FALSE, FALSE)
    \/ WriteFile(1)
    \/ WriteMeta(1)
    \/ \E k \in CacheKeys : AtRest /\ Invalidate(1, ClientLib, k)
    \/ \E f \in Filenames : ExternalRemove(getItemCacheDir(ClientLib, "K1"), f)
    \/ \E d \in Dirs : \E v \in Versions : Read(2, d, v)

SpecReads == Init /\ [][NextReads]_vars

\* One caller at a time, a service that may rate-limit, and a network on
\* which a request may fail.
NextFlaky ==
    \/ \E p \in Procs : \E c \in GetItemCalls \cup RetitleCalls :
          /\ \A q \in Procs : Idle(q)
          /\ Start(p, c, TRUE)
    \/ \E p \in Procs : WakeBackoff(p, TRUE)
    \/ \E p \in Procs : WakeInterval(p, TRUE)
    \/ \E p \in Procs : Receive(p, TRUE)
    \/ \E p \in Procs : NetworkFails(p)
    \/ TickBy(TimeStep)

SpecFlaky == Init /\ [][NextFlaky]_vars

\* One caller that calls getItem, updateItem, createItem, exportItems and
\* searchItems on a library that may lack the item, against a service that
\* may answer with failures.
InitRejecting ==
    /\ clock = requestInterval
    /\ libraryVersion = None
    /\ lastRequestTime = 0
    /\ backoffUntil = 0
    /\ proc = [p \in Procs |-> IdleProc]
    /\ started = 0
    /\ serverVersion = 1
    /\ items \in [Keys -> {NoItem, [key |-> "K1", version |-> 1,
                                    data |-> InitialData]}]
    /\ cooled = 0
    /\ failing = TRUE
    /\ nSent = 0
    /\ firstDispatch = None
    /\ maxSeen = None
    /\ InitCache
    /\ InitDl
    /\ InitFulltext
    /\ InitTranslation

NextRejecting ==
    \/ \E c \in GetItemCalls \cup RetitleCalls : Start(1, c, TRUE)
    \/ \E itemData \in NewItems : StartCreate(1, itemData, TRUE)
    \/ StartExport(1, <<"K1">>, "bibtex", "undefined", TRUE)
    \/ StartSearch(1, [has |-> {}, collectionKey |-> "COLL0001",
                       itemType |-> "note", includeChildren |-> FALSE], TRUE)
    \/ WakeBackoff(1, TRUE)
    \/ WakeInterval(1, TRUE)
    \/ Receive(1, TRUE)
    \/ TickBy(requestInterval)

SpecRejecting == InitRejecting /\ [][NextRejecting]_vars

\* One caller of the operations that read before they write, on a library
\* that may lack the item, against a service that may rate-limit or fail and
\* over a network on which a request may fail.
NextReadFails ==
    \/ \E c \in RetitleCalls \cup DeleteItemCalls \cup AddTagsCalls :
          Start(1, c, TRUE)
    \/ \E k \in Keys : StartAddToCollection(1, k, CollectionKey, TRUE)
    \/ \E itemData \in NewItems : StartCreate(1, itemData, TRUE)
    \/ WakeBackoff(1, TRUE)
    \/ WakeInterval(1, TRUE)
    \/ Receive(1, TRUE)
    \/ NetworkFails(1)
    \/ TickBy(requestInterval)

SpecReadFails == InitRejecting /\ [][NextReadFails]_vars

\* Concurrent callers and a service that may rate-limit them, with time that
\* passes and timers that fire: a pending timer is not put off forever.
NextLive ==
    \/ \E p \in Procs : \E c \in GetItemCalls : Start(p, c, TRUE)
    \/ \E p \in Procs : WakeBackoff(p, TRUE)
    \/ \E p \in Procs : WakeInterval(p, TRUE)
    \/ \E p \in Procs : Receive(p, TRUE)
    \/ TickToWake

SpecLive ==
    /\ Init
    /\ [][NextLive]_vars
    /\ WF_vars(TickToWake)
    /\ \A p \in Procs : WF_vars(WakeBackoff(p, TRUE))
    /\ \A p \in Procs : WF_vars(WakeInterval(p, TRUE))

\* exportItems called by one caller in each format, with and without a style.
NextExport ==
    \/ \E format \in ExportFormats : \E style \in {"undefined", "", "apa"} :
          \E itemKeys \in {<<"K1">>, <<"K1", "K2">>} :
             StartExport(1, itemKeys, format, style, FALSE)
    \/ WakeInterval(1, FALSE)
    \/ Receive(1, FALSE)
    \/ TickBy(requestInterval)

SpecExport == Init /\ [][NextExport]_vars

\* search and isAvailable called one after another on a TranslationClient
\* made with or without a base URL, against a server that may answer with any
\* status or be unreachable.
BaseUrls == {"undefined", "", "http://translate.example:1969"}

Identifiers == {"10.1000/182", "9780262510875"}

InitSearching ==
    /\ InitClient
    /\ InitCache
    /\ InitDl
    /\ InitFulltext
    /\ tc \in { TranslationClient(baseUrl) : baseUrl \in BaseUrls }
    /\ tr = NoTr
    /\ trCalls = 0

NextSearching ==
    \/ \E identifier \in Identifiers : TrSearch(identifier)
    \/ TrIsAvailable
    \/ TrSettle

SpecSearching == InitSearching /\ [][NextSearching]_vars

-----------------------------------------------------------------------------
(* Library version *)

\* C1: the tracked libraryVersion equals the largest Last-Modified-Version
\* value the client has read from a response so far (so it never decreases),
\* in whatever order the responses arrive.
VersionIsMaxSeen == maxSeen # None => libraryVersion = maxSeen

-----------------------------------------------------------------------------
(* Rate limiter *)

\* A step that dispatches a request.
Dispatches == nSent' = nSent + 1

SequentialSpacing ==
    [][Dispatches =>
         /\ nSent > 0 => clock' - lastRequestTime >= DEFAULT_REQUEST_INTERVAL
         /\ lastRequestTime' - firstDispatch'
               >= (nSent' - 1) * DEFAULT_REQUEST_INTERVAL]_vars

\* C3 witness: three requests were dispatched, the last one the write of an
\* updateItem that followed an earlier operation.
SequentialSpacingWitness ==
    /\ nSent >= 3
    /\ \E p \in Procs :
          /\ proc[p].pc = "inflight"
          /\ proc[p].stage = "write"
          /\ proc[p].req.method = "PATCH"

\* C4: no request is dispatched while the current time is earlier than
\* backoffUntil.
NoDispatchDuringBackoff ==
    [][Dispatches => clock' >= backoffUntil']_vars

\* The wait a 429 response asks for: Retry-After, else Backoff, else 5 s.
ClaimedWait(r) ==
    IF r.retryAfter # 0 THEN r.retryAfter
    ELSE IF r.backoff # 0 THEN r.backoff
    ELSE 5

\* C5: a 429 response to any request of the client ends the operation with
\* the rate-limit error carrying the wait (Retry-After, else Backoff, else
\* 5 s), sets backoffUntil to now plus that wait, and no further request is
\* issued for that call.
RateLimitHandled ==
    [][\A p \in Procs :
          (proc[p].pc = "inflight" /\ proc'[p].pc # "inflight"
             /\ proc[p].resp.status = 429)
          => /\ proc'[p].pc = "failed"
             /\ proc'[p].result = [kind |-> "rateLimited", status |-> 429,
                                   wait |-> ClaimedWait(proc[p].resp)]
             /\ backoffUntil' = clock + ClaimedWait(proc[p].resp) * 1000
             /\ nSent' = nSent]_vars

-----------------------------------------------------------------------------
(* Optimistic concurrency of the item writes *)

\* p's write has been dispatched (answered by the service).
Wrote(p) ==
    proc[p].stage = "write" /\ proc[p].pc \in {"inflight", "done", "failed"}

Accepted(p) == Wrote(p) /\ proc[p].resp.status = 204

\* p and q raced: both read the item of the same key at the same version and
\* both sent their write.
Raced(p, q) ==
    /\ p # q
    /\ Wrote(p) /\ Wrote(q)
    /\ proc[p].key = proc[q].key
    /\ proc[p].item.version = proc[q].item.version

\* C6: of two concurrent updateItem calls on one key that read the same
\* version the service accepts at most one; the other ends with the error
\* carrying the conflict status 412 and is not retried; the item is then the
\* item that was read with the accepted write applied.
RaceHasOneWinner ==
    \A p \in Procs : \A q \in Procs :
       Raced(p, q) =>
          /\ ~(Accepted(p) /\ Accepted(q))
          /\ ~Accepted(q) =>
                /\ proc[q].resp.status = 412
                /\ proc[q].pc # "inflight" =>
                      (proc[q].pc = "failed" /\ proc[q].result = ApiError(412))
          /\ (Accepted(p) /\ items[proc[p].key].version = proc[p].resp.lmv) =>
                items[proc[p].key].data =
                    ApplyPartial(proc[p].item.data, proc[p].req.body)

\* C6 witness: two calls raced, one has returned normally and the other has
\* failed with the conflict error.
RaceWitness ==
    \E p \in Procs : \E q \in Procs :
       /\ Raced(p, q)
       /\ proc[p].pc = "done"
       /\ proc[q].pc = "failed"
       /\ proc[p].req.body # proc[q].req.body

Range(seq) == { seq[i] : i \in DOMAIN seq }

NoRepeatedName(tagList) ==
    \A i \in DOMAIN tagList : \A j \in DOMAIN tagList :
       tagList[i].tag = tagList[j].tag => i = j

\* C7: the tag list addTagsToItem writes back for an item whose tags have no
\* repeated name starts with the existing tags unchanged, holds every input
\* name, and holds no name twice, also when the input repeats a name.
TagMergeIsUnion ==
    \A p \in Procs :
       (/\ proc[p].op = "addTagsToItem"
        /\ proc[p].stage = "read"
        /\ NoRepeatedName(proc[p].item.data.tags))
       => LET old == proc[p].item.data.tags
              new == proc[p].arg.val.tags
          IN /\ proc[p].arg.has = {"tags"}
             /\ Len(new) >= Len(old)
             /\ SubSeq(new, 1, Len(old)) = old
             /\ TagNamesOf(new) = TagNamesOf(old) \cup Range(proc[p].tagsArg)
             /\ NoRepeatedName(new)

\* C8 as claimed: once a deleteItem(key) call has returned, the item is in
\* the trash (deleted is 1) whatever other operations run.
DeleteLeavesItemTrashed ==
    \A p \in Procs :
       (proc[p].op = "deleteItem" /\ proc[p].pc = "done")
       => InTrash(proc[p].key)

\* C8 as amended: no operation erases an item and no request is an HTTP
\* DELETE; the write of deleteItem is a PATCH of {deleted: 1} preconditioned
\* on the version it read; and when deleteItem has returned normally, then,
\* until a later write to the item, the item is the one that was read with
\* deleted set to 1, and is in the trash listing.
DeleteIsLogical ==
    /\ \A k \in Keys : items[k] # NoItem /\ items[k].key = k
    /\ \A p \in Procs : proc[p].req.method # "DELETE"
    /\ \A p \in Procs :
          (proc[p].op = "deleteItem" /\ proc[p].stage = "write") =>
             /\ proc[p].req.method = "PATCH"
             /\ proc[p].req.key = proc[p].key
             /\ proc[p].req.ifUnmod = proc[p].item.version
             /\ proc[p].req.body = Partial("deleted", 1)
    /\ \A p \in Procs :
          (/\ proc[p].op = "deleteItem"
           /\ proc[p].pc = "done"
           /\ items[proc[p].key].version = proc[p].resp.lmv) =>
             /\ items[proc[p].key].data =
                   [proc[p].item.data EXCEPT !.deleted = 1]
             /\ InTrash(proc[p].key)

\* C8 witness: a deleteItem has returned and the item, with its tags, is in
\* the trash.
DeleteWitness ==
    \E p \in Procs :
       /\ proc[p].op = "deleteItem"
       /\ proc[p].pc = "done"
       /\ InTrash(proc[p].key)
       /\ items[proc[p].key].data.tags # <<>>

-----------------------------------------------------------------------------
(* Attachment cache *)

ValidEntryIsComplete ==
    AtRest =>
       \A d \in Dirs : \A v \in Versions :
          isValid(d, v) => fs[d].bin[fs[d].meta.filename] = Whole(v)

-----------------------------------------------------------------------------
(* downloadAttachment *)

\* Two downloadAttachment calls, the second right after the first, both
\* unforced and successful, that read the same version of the item, the first
\* one starting from an empty cache entry.
SuccessiveDownloads(a, b) ==
    /\ a.key = b.key
    /\ ~a.force /\ ~b.force
    /\ a.emptyAtStart
    /\ a.result.kind = "ok" /\ b.result.kind = "ok"
    /\ a.version = b.version
    /\ b.opsAtStart = a.opsAtEnd

\* C11: of two successive downloadAttachment(key) calls from an empty cache
\* entry with no change of the item's version in between, the first performs
\* one binary download and is not cache-sourced, the second performs none, is
\* cache-sourced and returns the same path.
DownloadIdempotent ==
    \A i \in 1..(Len(dlog) - 1) :
       SuccessiveDownloads(dlog[i], dlog[i + 1]) =>
          /\ dlog[i].downloads = 1
          /\ dlog[i + 1].downloads = 0
          /\ ~dlog[i].result.fromCache
          /\ dlog[i + 1].result.fromCache
          /\ dlog[i + 1].result.path = dlog[i].result.path

\* C11 witness: two such calls have ended, the second one served from the
\* cache.
DownloadIdempotentWitness ==
    \E i \in 1..(Len(dlog) - 1) :
       /\ SuccessiveDownloads(dlog[i], dlog[i + 1])
       /\ dlog[i + 1].result.fromCache
       /\ nDownloads = 1

Says(message, piece) == \E i \in DOMAIN message : message[i] = piece

\* C17: a downloadAttachment call on an item that is not an attachment ends
\* with an error (saying 'not an attachment' whenever the item could be read),
\* a call on an attachment of a link mode other than imported_file and
\* imported_url ends with an error (naming the link mode whenever the item
\* could be read); neither call downloads anything or starts an operation on
\* the cache.
DownloadValidates ==
    \A i \in DOMAIN dlog :
       LET e == dlog[i]
           item == att[e.key]
       IN  /\ item.itemType # "attachment" =>
                /\ e.result.kind = "error"
                /\ \/ Says(e.result.message, "not an attachment")
                   \/ e.result.message = <<"request failed">>
                /\ e.downloads = 0
                /\ e.opsAtEnd = e.opsAtStart
           /\ item.itemType = "attachment"
                 /\ item.linkMode \notin {"imported_file", "imported_url"} =>
                /\ e.result.kind = "error"
                /\ \/ Says(e.result.message, item.linkMode)
                   \/ e.result.message = <<"request failed">>
                /\ e.downloads = 0
                /\ e.opsAtEnd = e.opsAtStart

DownloadValidatesWitness ==
    \E i \in DOMAIN dlog :
       /\ att[dlog[i].key].linkMode = "linked_file"
       /\ dlog[i].force
       /\ Says(dlog[i].result.message, "linked_file")
       /\ nDownloads = 0

-----------------------------------------------------------------------------
(* getItemFulltext *)

\* The chunks a caller has got by following nextOffset, the last one included.
ChunksOf(pr) == Append(pr.input.chunks, pr.output)

\* C12: when a caller starts at offset 0 and follows nextOffset while hasMore
\* is true, each chunk's offset is the previous chunk's nextOffset, each
\* chunk begins where the previous one ended, and when hasMore is false the
\* chunks together are the full text, from its first character to its last.
PaginationRoundTrip ==
    \A p \in Procs :
       (/\ proc[p].op = "getItemFulltext"
        /\ proc[p].pc = "done"
        /\ ~proc[p].output.isNull
        /\ ChunksOf(proc[p])[1].offset = 0)
       => LET all == ChunksOf(proc[p])
              n == Len(all)
          IN /\ all[1].content.lo = 0
             /\ \A i \in 2..n :
                   /\ all[i].offset = all[i - 1].nextOffset
                   /\ all[i].content.lo = all[i - 1].content.hi
             /\ \A i \in 1..n : all[i].length = all[i].content.hi - all[i].content.lo
             /\ ~all[n].hasMore => all[n].content.hi = fulltext[proc[p].key]

\* C12 witness: a text was read to its end in three chunks.
PaginationWitness ==
    \E p \in Procs :
       /\ proc[p].op = "getItemFulltext"
       /\ proc[p].pc = "done"
       /\ ~proc[p].output.isNull
       /\ ~proc[p].output.hasMore
       /\ Len(proc[p].input.chunks) = 2
       /\ proc[p].input.chunks[1].offset = 0
       /\ proc[p].output.length > 0

\* C13: getItemFulltext returns null exactly when the answer to its request
\* had status 404; after any other failure (429, 403, 5xx, whatever the body
\* or the wait holds) the call has thrown.
NullExactlyOn404 ==
    \A p \in Procs :
       (proc[p].op = "getItemFulltext" /\ proc[p].pc \in {"done", "failed"})
       => /\ (proc[p].pc = "done" /\ proc[p].output.isNull)
                <=> proc[p].resp.status = 404
          /\ (~Ok(proc[p].resp.status) /\ proc[p].resp.status # 404)
                => proc[p].pc = "failed"

\* createItem, lines 254-258: the write as it is sent
IsCreateWrite(rq, itemData) ==
    /\ rq.method = "POST"
    /\ rq.path = "items"
    /\ rq.batch = <<itemData>>
    /\ rq.ifUnmod # None

\* C14: a createItem call that found the version unseeded sends the read of
\* one item first and the write only after it, a call that found it seeded
\* sends the write alone; the write is a POST of a one-element batch with an
\* If-Unmodified-Since-Version header, and once it is sent libraryVersion is
\* not null.
CreateOrdersSteps ==
    \A p \in Procs :
        LET pr == proc[p]
            n == Len(pr.sent)
        IN  pr.op = "createItem" =>
              /\ n <= (IF pr.input.seeded THEN 1 ELSE 2)
              /\ pr.pc \in {"inflight", "done"} /\ pr.stage = "post" =>
                    n = (IF pr.input.seeded THEN 1 ELSE 2)
              /\ ~pr.input.seeded /\ n >= 1 => pr.sent[1] = SeedReq
              /\ n = (IF pr.input.seeded THEN 1 ELSE 2) =>
                    /\ IsCreateWrite(pr.sent[n], pr.input.itemData)
                    /\ libraryVersion # None

CreateOrdersStepsWitness ==
    \E p \in Procs :
        /\ proc[p].op = "createItem"
        /\ proc[p].pc = "done"
        /\ ~proc[p].input.seeded
        /\ Len(proc[p].sent) = 2
        /\ proc[p].sent[2].ifUnmod = proc[p].resp.lmv - 1

\* C15: once the response of createItem's write is processed, the call has
\* returned the key that the success map holds for submission 0 if that map is
\* not empty; it has raised with the service's failure message if the success
\* map is empty and the failed map is not; it has raised if both are empty; it
\* has raised if the write was rejected. It has returned only with a key.
CreateMapsResponse ==
    \A p \in Procs :
        LET pr == proc[p]
            data == pr.resp.data
        IN  pr.op = "createItem" /\ pr.stage = "post" /\ pr.pc \in {"done", "failed"} =>
              /\ ~Ok(pr.resp.status) => pr.pc = "failed"
              /\ Ok(pr.resp.status) /\ DOMAIN data.success # {} =>
                    /\ pr.pc = "done"
                    /\ pr.output.key = data.success["0"]
              /\ Ok(pr.resp.status) /\ DOMAIN data.success = {}
                                    /\ DOMAIN data.failed # {} =>
                    /\ pr.pc = "failed"
                    /\ \E i \in DOMAIN pr.output.message :
                          pr.output.message[i] = data.failed["0"].message
              /\ Ok(pr.resp.status) /\ DOMAIN data.success = {}
                                    /\ DOMAIN data.failed = {} =>
                    /\ pr.pc = "failed"
                    /\ pr.result = CreateFailed
              /\ pr.pc = "done" =>
                    /\ pr.output.key \notin {"none", "undefined"}
                    /\ "0" \in DOMAIN data.success

CreateMapsResponseWitness ==
    \E p \in Procs :
        /\ proc[p].op = "createItem"
        /\ proc[p].pc = "failed"
        /\ DOMAIN proc[p].resp.data.failed # {}
        /\ proc[p].output.message = <<"Failed to create item: ", FailureMessage>>

\* C16: an updateItem call sends the read of the item and then at most one
\* more request, a PATCH of the item whose If-Unmodified-Since-Version is the
\* version of the item that the read returned and whose body is the partial
\* data of the caller; when the service rejects that write, the call has raised
\* an error with the status of the response and has sent nothing more.
UpdateReadsThenWrites ==
    \A p \in Procs :
        LET pr == proc[p]
            n == Len(pr.sent)
        IN  pr.op = "updateItem" =>
              /\ n <= 2
              /\ n >= 1 => pr.sent[1] = GetItemReq(pr.key)
              /\ n = 2 =>
                    /\ pr.stage = "write"
                    /\ pr.sent[2].method = "PATCH"
                    /\ pr.sent[2].path = "item"
                    /\ pr.sent[2].key = pr.key
                    /\ pr.sent[2].ifUnmod = pr.item.version
                    /\ pr.sent[2].body = pr.arg
              /\ pr.stage = "write" /\ pr.pc = "done" =>
                    n = 2 /\ Ok(pr.resp.status)
              /\ pr.stage = "write" /\ pr.pc = "failed" =>
                    /\ n = 2
                    /\ ~Ok(pr.resp.status)
                    /\ pr.result = ApiError(pr.resp.status)

UpdateRejectedWitness ==
    \E p \in Procs :
        /\ proc[p].op = "updateItem"
        /\ proc[p].stage = "write"
        /\ proc[p].pc = "failed"
        /\ proc[p].result.status = 412
        /\ proc[p].sent[2].ifUnmod < serverVersion

-----------------------------------------------------------------------------
(* TranslationClient *)

\* C18: a search(identifier) call sends one request, a POST of the identifier
\* to <baseUrl>/search, and no other; when it has ended, a 501 answer has
\* raised the 'No translator found' error with the identifier in its message,
\* a 500 answer another error with the identifier in its message, any other
\* status outside 200-299 an error with the status and the body in its
\* message, a failed connection an error with the server's URL and the command
\* that starts the server in its message, and a 2xx answer has returned the
\* decoded records.
SearchMapsOutcome ==
    tr.op = "search" =>
       /\ tr.fetches = <<[method |-> "POST", url |-> <<tc.baseUrl, "/search">>,
                          contentType |-> "text/plain", body |-> tr.identifier]>>
       /\ tr.pc = "ended" =>
            LET o == tr.outcome
                res == tr.result
            IN  /\ o.kind = "response" /\ o.status = 501 =>
                     /\ res.kind = "thrown"
                     /\ res.message[1] = "No translator found for identifier: "
                     /\ Holds(res.message, <<tr.identifier>>)
                /\ o.kind = "response" /\ o.status = 500 =>
                     /\ res.kind = "thrown"
                     /\ res.message[1] # "No translator found for identifier: "
                     /\ Holds(res.message, <<tr.identifier>>)
                /\ o.kind = "response" /\ o.status \notin {500, 501}
                                       /\ ~Ok(o.status) =>
                     /\ res.kind = "thrown"
                     /\ Holds(res.message, Digits(o.status))
                     /\ Holds(res.message, o.text)
                /\ o.kind = "thrown" =>
                     /\ res.kind = "thrown"
                     /\ Holds(res.message, <<tc.baseUrl>>)
                     /\ Holds(res.message, <<HowToStart>>)
                /\ o.kind = "response" /\ Ok(o.status) =>
                     /\ res.kind = "response"
                     /\ res.json = o.json

SearchNoTranslatorWitness ==
    /\ tr.op = "search"
    /\ tr.pc = "ended"
    /\ tr.outcome.status = 501
    /\ tr.result.message =
          <<"No translator found for identifier: ", "10.1000/182">>

\* C19: an isAvailable() call never raises, and it returns true exactly when
\* its probe got a response whose status is in 200-299 or is 404; it returns
\* false when the connection failed and for every other status.
AvailableIffUp ==
    tr.op = "isAvailable" /\ tr.pc = "ended" =>
       /\ tr.result.kind # "thrown"
       /\ tr.available <=>
             /\ tr.outcome.kind = "response"
             /\ \/ tr.outcome.status \in 200..299
                \/ tr.outcome.status = 404

AvailableOn404Witness ==
    /\ tr.op = "isAvailable"
    /\ tr.pc = "ended"
    /\ tr.outcome.status = 404
    /\ tr.available
    /\ tr.fetches = <<AvailableFetch("http://translate.example:1969")>>

-----------------------------------------------------------------------------
(* searchItems *)

\* C20: the request of a searchItems call goes to the collection's items when
\* collectionKey is given and to the library's items otherwise; to the
\* top-level endpoint when includeChildren is false or absent and to the
\* endpoint of all items, children included, when it is true; and neither
\* collectionKey nor includeChildren is among the query parameters.
SearchSelectsEndpoint ==
    \A p \in Procs :
        LET pr == proc[p]
            params == pr.input
            inCollection == "collectionKey" \in params.has
            withChildren == "includeChildren" \in params.has
                            /\ params.includeChildren
        IN  pr.op = "searchItems" /\ Len(pr.sent) >= 1 =>
              /\ Len(pr.sent) = 1
              /\ pr.sent[1].path =
                    IF inCollection
                    THEN (IF withChildren THEN "collections/items"
                          ELSE "collections/items/top")
                    ELSE (IF withChildren THEN "items" ELSE "items/top")
              /\ inCollection => pr.sent[1].key = params.collectionKey
              /\ "collectionKey" \notin DOMAIN pr.sent[1].params
              /\ "includeChildren" \notin DOMAIN pr.sent[1].params

-----------------------------------------------------------------------------
(* exportItems *)

\* C21: an exportItems call that has returned has returned the body of the
\* response as a string, its text unchanged, in each of the seven formats and
\* for every Content-Type of the response.
ExportReturnsRawText ==
    \A p \in Procs :
        proc[p].op = "exportItems" /\ proc[p].pc = "done" =>
           /\ proc[p].input.format \in ExportFormats
           /\ proc[p].output.kind = "string"
           /\ proc[p].output.text = proc[p].resp.text

\* C39: the request of an exportItems call has a style parameter exactly when
\* the format is bibliography and a style that is not empty was given, and
\* then it is that style; its other parameters are itemKey, the keys joined
\* with commas, and format, and nothing else.
StyleOnlyForBibliography ==
    \A p \in Procs :
       (proc[p].op = "exportItems" /\ Len(proc[p].sent) >= 1) =>
          LET given == proc[p].input
              query == proc[p].sent[1].params
              styled == given.format = "bibliography"
                           /\ given.style # "undefined" /\ given.style # ""
          IN /\ "style" \in DOMAIN query <=> styled
             /\ styled => query["style"] = given.style
             /\ DOMAIN query \ {"style"} = {"itemKey", "format"}
             /\ query["format"] = given.format
             /\ query["itemKey"] =
                   (IF Len(given.itemKeys) = 1 THEN <<given.itemKeys[1]>>
                    ELSE <<given.itemKeys[1], ",", given.itemKeys[2]>>)
             /\ Len(proc[p].sent) = 1

\* C39 witness: a bibliography with a style, and another format whose style
\* was dropped.
StyleSentWitness ==
    /\ proc[1].op = "exportItems"
    /\ proc[1].pc = "done"
    /\ proc[1].input.format = "bibliography"
    /\ proc[1].input.style = "apa"
    /\ Len(proc[1].input.itemKeys) = 2
    /\ "style" \in DOMAIN proc[1].sent[1].params

-----------------------------------------------------------------------------
(* CacheManager: the libraries *)

\* The entries of the libraries other than lib are what they were, and are
\* valid for the versions they were valid for.
OthersUntouched(lib) ==
    \A d \in Dirs :
       d[1] # lib =>
          /\ fs'[d] = fs[d]
          /\ \A v \in Versions : isValid(d, v)' = isValid(d, v)

\* C22: no step of a save, an invalidate or a clearAll on the CacheManager of
\* one library, whatever item key it is given, creates, changes or removes an
\* entry of another library or changes what is valid under another library.
LibrariesIsolated ==
    [][\A lib \in Libs :
          (\/ \E k \in PassedKeys : \E f \in Filenames : \E v \in Versions :
                 SaveCall(1, lib, getItemCacheDir(lib, k), f, v, FALSE, FALSE)
           \/ cproc[1].lib = lib /\ (WriteFile(1) \/ WriteMeta(1))
           \/ \E k \in PassedKeys : Invalidate(1, lib, k)
           \/ ClearAll(1, lib))
          => OthersUntouched(lib)]_vars

-----------------------------------------------------------------------------
(* throttle: the waits *)

\* C23: when the request of a suspended call is dispatched, the time the call
\* has slept in throttle is the larger of the time that was left of the
\* cooldown and the time that was left of the spacing when it entered, and
\* lastRequestTime is stamped with the time of that step.
ThrottleWaitsTheLarger ==
    [][\A p \in Procs :
          proc[p].pc \in {"sleepBackoff", "sleepInterval"}
             /\ proc'[p].pc = "inflight" =>
                /\ proc[p].slept = proc[p].owed
                /\ lastRequestTime' = clock]_vars

-----------------------------------------------------------------------------
(* The cooldown *)

\* C24: when the client processes a response that has a Backoff header of c
\* seconds, whatever its status and whichever request it answers (the PATCH of
\* updateItem too), backoffUntil is afterwards at least the time of that step
\* plus c seconds.
BackoffHeaderObeyed ==
    [][\A p \in Procs :
          Receive(p, TRUE) /\ proc[p].resp.backoff # 0 =>
             backoffUntil' >= clock + proc[p].resp.backoff * 1000]_vars

\* C25: no step moves backoffUntil to an earlier time.
BackoffOnlyExtended == [][backoffUntil' >= backoffUntil]_vars

-----------------------------------------------------------------------------
(* The version and the failures *)

\* C26: when the client processes a response that has a Last-Modified-Version
\* header, whatever its status and whichever request it answers (a rejected
\* PATCH of updateItem too), libraryVersion is afterwards the value of that
\* header.
VersionHeaderAlwaysRead ==
    [][\A p \in Procs :
          Receive(p, FALSE) /\ proc[p].resp.lmv # None =>
             libraryVersion' = proc[p].resp.lmv]_vars

\* C27: lastRequestTime is stamped with the time of the step that dispatches
\* a request; a request that fails on the network leaves lastRequestTime at
\* that time and backoffUntil where it was or later; and with one operation at
\* a time every request after the first, the one after a failed attempt too,
\* is dispatched at least the minimum interval after lastRequestTime.
FailureKeepsRateState ==
    [][/\ nSent' = nSent + 1 =>
            /\ lastRequestTime' = clock
            /\ nSent > 0 => clock - lastRequestTime >= requestInterval
       /\ \A p \in Procs :
             NetworkFails(p) =>
                /\ lastRequestTime' = lastRequestTime
                /\ backoffUntil' >= backoffUntil]_vars

FailureKeepsRateStateWitness ==
    \E p, q \in Procs :
       /\ proc[p].result = NetworkError
       /\ proc[q].pc = "inflight"
       /\ lastRequestTime = clock
       /\ backoffUntil > 0

\* C28: a call of an operation other than getItemFulltext whose request was
\* answered with a non-success status other than 429 has failed, and the
\* message of its error holds the status code and the body of the response as
\* it came; for a getItem answered 404 that code is 404.
FailuresSurface ==
    \A p \in Procs :
       LET pr == proc[p] IN
       /\ pr.op \notin {"idle", "getItemFulltext"}
       /\ pr.pc \in {"done", "failed"}
       /\ pr.resp # NoResp
       /\ ~Ok(pr.resp.status)
       /\ pr.resp.status # 429
       => /\ pr.pc = "failed"
          /\ pr.result.status = pr.resp.status
          /\ Holds(pr.output, Digits(pr.resp.status))
          /\ Holds(pr.output, pr.resp.text)
          /\ pr.output = <<"Zotero API error (">> \o Digits(pr.resp.status)
                            \o <<"): ">> \o pr.resp.text

FailuresSurfaceWitness ==
    /\ proc[1].op = "getItem"
    /\ proc[1].pc = "failed"
    /\ proc[1].resp.status = 404
    /\ Holds(proc[1].output, <<"4", "0", "4">>)

-----------------------------------------------------------------------------
(* The numbers of a page of text *)

\* C29: for the offset and limit a call was given and a text of T characters,
\* the page getItemFulltext returns has: as its offset the given one brought
\* into 0..T; as its length the smaller of T - offset and the given limit
\* brought into 1000..50000; hasMore true exactly when offset + length < T;
\* nextOffset equal to offset + length when hasMore is true and null
\* otherwise; totalChars equal to T.
PageNumbers ==
    \A p \in Procs :
       (/\ proc[p].op = "getItemFulltext"
        /\ proc[p].pc = "done"
        /\ ~proc[p].output.isNull)
       => LET T == fulltext[proc[p].key]
              given == proc[p].input
              page == proc[p].output
              effective == IF given.limit < 1000 THEN 1000
                           ELSE IF given.limit > 50000 THEN 50000
                           ELSE given.limit
              from == IF given.offset < 0 THEN 0
                      ELSE IF given.offset > T THEN T
                      ELSE given.offset
              count == IF effective < T - from THEN effective ELSE T - from
          IN /\ page.offset = from
             /\ page.length = count
             /\ page.content = Chars(from, from + count)
             /\ page.hasMore <=> (from + count < T)
             /\ page.nextOffset = (IF page.hasMore THEN from + count ELSE None)
             /\ page.totalChars = T

\* C29 witness: a negative offset and a limit above 50000 on a text longer
\* than that.
PageNumbersWitness ==
    /\ proc[1].op = "getItemFulltext"
    /\ proc[1].pc = "done"
    /\ ~proc[1].output.isNull
    /\ proc[1].input.offset < 0
    /\ proc[1].input.limit > 50000
    /\ proc[1].output.length = 50000
    /\ proc[1].output.hasMore

\* C30: a page with hasMore true is not empty, its nextOffset is past its
\* offset and before the end of the text; so the characters left after
\* nextOffset get fewer with every page a caller follows.
PagingAdvances ==
    \A p \in Procs :
       (/\ proc[p].op = "getItemFulltext"
        /\ proc[p].pc = "done"
        /\ ~proc[p].output.isNull)
       => LET all == ChunksOf(proc[p])
          IN /\ \A i \in 1..Len(all) :
                   all[i].hasMore =>
                      /\ all[i].length > 0
                      /\ all[i].nextOffset > all[i].offset
                      /\ all[i].nextOffset < all[i].totalChars
             /\ \A i \in 2..Len(all) :
                   all[i].totalChars - all[i].offset
                      < all[i - 1].totalChars - all[i - 1].offset

\* C30 witness: a caller followed nextOffset and the page it got has more.
PagingAdvancesWitness ==
    /\ proc[1].op = "getItemFulltext"
    /\ proc[1].pc = "done"
    /\ ~proc[1].output.isNull
    /\ Len(proc[1].input.chunks) = 1
    /\ proc[1].output.hasMore
    /\ proc[1].output.offset > proc[1].input.chunks[1].offset

-----------------------------------------------------------------------------
(* Collections and tags *)

Occurrences(list, k) == Cardinality({ i \in DOMAIN list : list[i] = k })

\* C31: an addItemToCollection(key, c) call that has returned sent only its
\* read when the item it read was a member of c, and otherwise sent the read,
\* the read of updateItem and one PATCH whose collections are the memberships
\* it read followed by c; and with calls for c only, once a call has returned
\* the item's collections hold c exactly once and every membership the call
\* read.
AddToCollectionIdempotent ==
    \A p \in Procs :
       LET pr == proc[p] IN
       (pr.op = "addItemToCollection" /\ pr.pc = "done") =>
          LET c == pr.input.collectionKey
              before == pr.input.read.data.collections
              now == items[pr.key].data.collections
          IN /\ IncludesKey(before, c) => pr.sent = <<GetItemReq(pr.key)>>
             /\ ~IncludesKey(before, c) =>
                   /\ Len(pr.sent) = 3
                   /\ pr.sent[1] = GetItemReq(pr.key)
                   /\ pr.sent[2] = GetItemReq(pr.key)
                   /\ pr.sent[3].method = "PATCH"
                   /\ pr.sent[3].body = Partial("collections", before \o <<c>>)
             /\ Occurrences(now, c) = 1
             /\ \A i \in DOMAIN before : IncludesKey(now, before[i])

\* C31 witness: two calls for c have returned, one wrote and one found the
\* item a member, and the item kept its other membership.
AddToCollectionWitness ==
    /\ proc[1].op = "addItemToCollection" /\ proc[1].pc = "done"
    /\ proc[2].op = "addItemToCollection" /\ proc[2].pc = "done"
    /\ Len(proc[1].sent) = 3
    /\ Len(proc[2].sent) = 1
    /\ items["K1"].data.collections = <<OtherCollection, CollectionKey>>

WritingOps ==
    {"createItem", "updateItem", "deleteItem", "addTagsToItem",
     "addItemToCollection"}

\* C32: when the read of a createItem, updateItem, deleteItem, addTagsToItem
\* or addItemToCollection call is answered with a failure status, or fails on
\* the network, the call ends at that step with the error, no request is
\* dispatched, the library is not changed, and every request the call has
\* sent is a read.
NoWriteAfterFailedRead ==
    [][\A p \in Procs :
          (/\ proc[p].pc = "inflight"
           /\ proc[p].op \in WritingOps
           /\ proc[p].req.method = "GET"
           /\ proc'[p] # proc[p]
           /\ \/ proc'[p].result = NetworkError
              \/ ~Ok(proc[p].resp.status))
          => /\ proc'[p].pc = "failed"
             /\ proc'[p].result.kind \in {"apiError", "rateLimited", "networkError"}
             /\ proc'[p].result.kind = "apiError" =>
                   proc'[p].result.status = proc[p].resp.status
             /\ nSent' = nSent
             /\ items' = items
             /\ \A i \in DOMAIN proc'[p].sent : proc'[p].sent[i].method = "GET"]_vars

\* C32 witness: the second read of an addItemToCollection call was answered
\* 429 and the call failed after two requests.
NoWriteAfterFailedReadWitness ==
    /\ proc[1].op = "addItemToCollection"
    /\ proc[1].pc = "failed"
    /\ proc[1].result.kind = "rateLimited"
    /\ Len(proc[1].sent) = 2

\* C33: the If-Unmodified-Since-Version of the write of an addTagsToItem or
\* addItemToCollection call is the version of the item the call read to
\* compute the list it writes; and when two addItemToCollection calls for
\* different collections have both returned normally, the item is in both
\* collections.
MergeGuardedByItsRead ==
    /\ \A p \in Procs :
          (/\ proc[p].op \in {"addTagsToItem", "addItemToCollection"}
           /\ proc[p].stage = "write")
          => proc[p].req.ifUnmod = proc[p].input.read.version
    /\ \A p, q \in Procs :
          (/\ proc[p].op = "addItemToCollection" /\ proc[p].pc = "done"
           /\ proc[q].op = "addItemToCollection" /\ proc[q].pc = "done")
          => /\ IncludesKey(items[proc[p].key].data.collections,
                            proc[p].input.collectionKey)
             /\ IncludesKey(items[proc[q].key].data.collections,
                            proc[q].input.collectionKey)

-----------------------------------------------------------------------------
(* The precondition of createItem *)

\* C34: at the step that dispatches the POST of a createItem call, the
\* If-Unmodified-Since-Version of that request is the client's libraryVersion
\* of that moment.
PostCarriesCurrentVersion ==
    [][\A p \in Procs :
          (/\ proc'[p].pc = "inflight"
           /\ Len(proc'[p].sent) = Len(proc[p].sent) + 1
           /\ proc'[p].op = "createItem"
           /\ proc'[p].req.method = "POST")
          => proc'[p].req.ifUnmod = libraryVersion']_vars

-----------------------------------------------------------------------------
(* Concurrent saves, removals and reads of the cache *)

\* C35: when two save or saveFromStream calls for one key have been made and
\* both have returned normally, the sidecar and the binary on disk come from
\* the same call: if isValid(key, v) is true, the cached binary is the whole
\* content that was saved with version v.
ConcurrentSavesAgree ==
    (cstarted = 2 /\ \A c \in SaveCallers : cproc[c].pc = "done") =>
       \A d \in Dirs : \A v \in Versions :
          isValid(d, v) => fs[d].bin[getMeta(d).filename] = Whole(v)

Absent(d) ==
    /\ \A v \in Versions : ~isValid(d, v)
    /\ getMeta(d) = NoMeta
    /\ getCachedFilePath(d) = "none"

\* C36: invalidate(key) and clearAll() return normally; after invalidate(key)
\* the entry of key is absent (isValid false for every version, getMeta and
\* getCachedFilePath null) and every other entry is as it was; after
\* clearAll() every entry of that library is absent and the entries of the
\* other library are as they were.
RemovalLeavesAbsent ==
    [][\A lib \in Libs :
          /\ \A k \in CacheKeys :
                Invalidate(1, lib, k) =>
                   /\ cproc'[1].pc = "done"
                   /\ Absent(getItemCacheDir(lib, k))'
                   /\ \A d \in Dirs \ {getItemCacheDir(lib, k)} : fs'[d] = fs[d]
          /\ ClearAll(1, lib) =>
                /\ cproc'[1].pc = "done"
                /\ \A k \in CacheKeys : Absent(getItemCacheDir(lib, k))'
                /\ \A d \in Dirs : d[1] # lib => fs'[d] = fs[d]]_vars

\* C37: a read of the cache changes no file and does not raise; when the
\* entry's directory or sidecar is missing or the sidecar cannot be parsed,
\* isValid is false and getMeta and getCachedFilePath are null; when the
\* sidecar names a binary that is not there, isValid is false and
\* getCachedFilePath is null; when the sidecar's version is another one,
\* isValid is false.
ReadsArePure ==
    [][\A d \in Dirs : \A v \in Versions :
          Read(2, d, v) =>
             LET res == cproc'[2].result
                 meta == fs[d].meta
             IN /\ fs' = fs
                /\ ~res.raised
                /\ (~fs[d].exists \/ meta.state # "ok") =>
                      /\ ~res.isValid
                      /\ res.meta = NoMeta
                      /\ res.path = "none"
                /\ (meta.state = "ok" /\ fs[d].bin[meta.filename] = NoFile) =>
                      /\ ~res.isValid
                      /\ res.path = "none"
                /\ (meta.state = "ok" /\ meta.version # v) => ~res.isValid]_vars

\* C37 witness: a read of an entry whose sidecar is there and whose binary
\* is gone.
ReadsArePureWitness ==
    /\ cproc[2].op = "read"
    /\ cproc[2].result.meta # NoMeta
    /\ cproc[2].result.path = "none"
    /\ ~cproc[2].result.isValid
    /\ ~cproc[2].result.raised

-----------------------------------------------------------------------------
(* Freshness of the entry downloadAttachment serves *)

\* C38: a downloadAttachment call is served from the cache only when it is
\* not forced and the entry's recorded version is the version of the
\* attachment the call has just read; every other call that passes the
\* validation goes on to the binary download, and when it returns normally it
\* has made one download, is not cache-sourced, and leaves an entry whose
\* recorded version is the version it read and for which isValid is true.
StaleEntryIsReplaced ==
    [][LET d == getItemCacheDir(ClientLib, dl.key)
           last == dlog'[Len(dlog')]
       IN /\ (dl.pc = "getItem" /\ dl'.pc = "idle" /\ last.result.kind = "ok") =>
                /\ last.result.fromCache
                /\ ~dl.force
                /\ getMeta(d).version = att[dl.key].version
          /\ (dl.pc = "getItem" /\ dl'.pc = "download") =>
                dl'.version = att[dl.key].version
          /\ (dl.pc = "save" /\ dl'.pc = "idle" /\ last.result.kind = "ok") =>
                /\ ~last.result.fromCache
                /\ last.downloads = 1
                /\ \A k \in CacheKeys : \A v \in Versions :
                      (k = dl.key /\ v = dl.version) =>
                         /\ isValid(getItemCacheDir(ClientLib, k), v)'
                         /\ getMeta(getItemCacheDir(ClientLib, k))'.version = v]_vars

\* C38 witness: an unforced call that found an entry of an earlier version
\* has downloaded the binary and replaced the entry.
StaleEntryIsReplacedWitness ==
    \E i \in DOMAIN dlog :
       /\ ~dlog[i].emptyAtStart
       /\ ~dlog[i].force
       /\ dlog[i].result.kind = "ok"
       /\ ~dlog[i].result.fromCache
       /\ dlog[i].downloads = 1
       /\ dlog[i].version = 2
       /\ isValid(getItemCacheDir(ClientLib, dlog[i].key), 2)

-----------------------------------------------------------------------------
(* Progress *)

\* C40: a call that is suspended in throttle is later in flight or ended: it
\* does not stay suspended forever.
SuspendedCallsProceed ==
    \A p \in Procs :
       Sleeping(p) ~> (proc[p].pc \in {"inflight", "done", "failed"})

\* C40 witness: a request is dispatched at the moment a cooldown of the
\* service has run out, after another call was rate-limited.
SuspendedCallsProceedWitness ==
    \E p, q \in Procs :
       /\ proc[p].pc = "inflight"
       /\ lastRequestTime = clock
       /\ backoffUntil > 0
       /\ clock >= backoffUntil
       /\ proc[q].result.kind = "rateLimited"

====
